---- MODULE Spec2Model ----
\* A model of the native layer of valkey-glide-csharp (rust/src/lib.rs and
\* rust/src/ffi.rs): the request entry points, the tasks they schedule on the
\* client's runtime, the two callbacks, and the encoding of a reply into the
\* ResponseValue tree that crosses the FFI boundary and is later released.
EXTENDS Integers, Sequences, FiniteSets, TLC

\* ------------------------------------------------------------------------
\* Bounds of the model
\* ------------------------------------------------------------------------

\* requests a caller submits in one behaviour
MaxReq == 2
\* nesting depth of the reply values that are encoded
MaxDepth == 3
\* low 32 bits of a byte buffer's length range over 0..MaxLen
MaxLen == 1
\* a byte buffer's length is hi * 2^32 + lo with hi in 0..MaxHi
MaxHi == 1

\* the longest argument list given to a scan that is submitted alone
MaxArgs == 2

\* the largest cmd_count of a batch that is submitted alone
MaxCmds == 2

\* the longest slot key of a route
MaxKey == 3

\* ------------------------------------------------------------------------
\* Lengths.  A usize length is kept as the pair (hi, lo) standing for
\* hi * 2^32 + lo, so that the cast `len as u32` of from_value is the
\* projection on lo and lengths of 4 GiB and more stay representable.
\* ------------------------------------------------------------------------

usize(n) == [hi |-> 0, lo |-> n]

as_u32(len) == len.lo

\* ------------------------------------------------------------------------
\* redis::Value, the reply of the underlying client
\* ------------------------------------------------------------------------

\* a byte string: its content (an opaque tag) and its length
NoBytes == [tag |-> 0, hi |-> 0, lo |-> 0]

Bytes == [tag : {1}, hi : 0..MaxHi, lo : 0..MaxLen]

ByteLen(b) == [hi |-> b.hi, lo |-> b.lo]

Val(t, n, b, items) == [t |-> t, n |-> n, b |-> b, items |-> items]

Nil == Val("Nil", 0, NoBytes, <<>>)

Okay == Val("Okay", 0, NoBytes, <<>>)

IntV(n) == Val("Int", n, NoBytes, <<>>)

DoubleV(bits) == Val("Double", bits, NoBytes, <<>>)

BooleanV(x) == Val("Boolean", IF x THEN 1 ELSE 0, NoBytes, <<>>)

StrV(t, b) == Val(t, 0, b, <<>>)

\* a ServerError whose details() is None
ServerErrorNoDetails == Val("ServerError", -1, NoBytes, <<>>)

ArrayV(items) == Val("Array", 0, NoBytes, items)

SetV(items) == Val("Set", 0, NoBytes, items)

\* items is a sequence of <<key, value>> pairs
MapV(items) == Val("Map", 0, NoBytes, items)

StringTypes == {"SimpleString", "BulkString", "VerbatimString", "ServerError"}

ContainerTypes == {"Array", "Set", "Map"}

\* the variants from_value has no arm for
UnclassifiedTypes == {"Push", "BigNumber", "Attribute"}

ScalarValues ==
  {Nil, Okay, IntV(-1), IntV(5), DoubleV(3), BooleanV(TRUE), BooleanV(FALSE)}

StringValues == {StrV(t, b) : t \in StringTypes, b \in Bytes}

UnclassifiedValues == {Val(t, 0, NoBytes, <<>>) : t \in UnclassifiedTypes}

LeafValues == ScalarValues \cup StringValues

\* the siblings put next to a nested value
Sib1 == StrV("BulkString", [tag |-> 1, hi |-> 0, lo |-> 1])

Sib2 == IntV(5)

Wraps(x) ==
  { ArrayV(<<x>>), ArrayV(<<Sib1, x>>), SetV(<<x, Sib2>>),
    MapV(<< <<Sib1, x>> >>), MapV(<< <<Sib1, x>>, <<Sib1, Sib2>> >>),
    MapV(<< <<x, Sib1>> >>) }

\* the leaves that are nested to the full depth: a scalar, a short buffer and
\* a buffer whose length is a multiple of 2^32
CoreLeaves == {Nil, Sib1, StrV("SimpleString", [tag |-> 1, hi |-> MaxHi, lo |-> 0])}

RECURSIVE ValuesOfDepth(_)
\* the values that nest containers up to d deep around a core leaf
ValuesOfDepth(d) ==
  IF d = 0
    THEN CoreLeaves
    ELSE LET S == ValuesOfDepth(d - 1)
         IN  S \cup {ArrayV(<<>>), SetV(<<>>), MapV(<<>>)}
               \cup UNION {Wraps(x) : x \in S}

\* ------------------------------------------------------------------------
\* The heap of buffers handed across the boundary.  A heap is a sequence of
\* cells; an address is an index into it, and address 0 is the dangling
\* pointer of a Vec that owns no allocation.
\*   kind  "u8" (bytes), "rv" (a Vec<ResponseValue>) or "box" (the boxed root)
\*   cap   the capacity the buffer was allocated with
\*   data  the content: <<bytes>>, the child records, or <<root record>>
\*   frees how many times the buffer was deallocated
\*   bad   a deallocation passed a capacity other than cap
\* ------------------------------------------------------------------------

EmptyHeap == <<>>

Cell(kind, cap, data) ==
  [kind |-> kind, cap |-> cap, data |-> data, frees |-> 0, bad |-> FALSE]

\* Vec::shrink_to_fit, as_ptr, len, mem::forget: the buffer stays allocated
\* with capacity len; an empty Vec owns no buffer
convert_vec_to_pointer(kind, len, data, h) ==
  IF len.hi = 0 /\ len.lo = 0
    THEN [ptr |-> 0, len |-> len, h |-> h]
    ELSE [ptr |-> Len(h) + 1, len |-> len, h |-> Append(h, Cell(kind, len, data))]

ResponseValue(typ, val, size) == [typ |-> typ, val |-> val, size |-> size]

\* a default record whose length field is not zeroed
DefaultResponseValueSized == ResponseValue("Null", 0, 1)

\* #[derive(Default)]: typ Null, val 0, size 0
DefaultResponseValue == ResponseValue("Null", 0, 0)

RECURSIVE FlattenValueFirst(_)
\* Flatten with each pair emitted as value, key
FlattenValueFirst(pairs) ==
  IF pairs = <<>>
    THEN <<>>
    ELSE <<Head(pairs)[2], Head(pairs)[1]>> \o FlattenValueFirst(Tail(pairs))

RECURSIVE Flatten(_)
\* flat_map(|(k, v)| vec![from_value(k), from_value(v)]): key, value, key, ...
Flatten(pairs) ==
  IF pairs = <<>>
    THEN <<>>
    ELSE <<Head(pairs)[1], Head(pairs)[2]>> \o Flatten(Tail(pairs))

ValueTypeOfString(t) ==
  CASE t = "BulkString" -> "BulkString"
    [] t = "SimpleString" -> "String"
    [] t = "VerbatimString" -> "String"
    [] t = "ServerError" -> "Error"

ValueTypeOfContainer(t) ==
  CASE t = "Array" -> "Array"
    [] t = "Set" -> "Set"
    [] t = "Map" -> "Map"

\* the child values of a container in the order from_value walks them
ChildValues(value) ==
  IF value.t = "Map" THEN Flatten(value.items) ELSE value.items

RECURSIVE from_value(_, _)
RECURSIVE EncodeSeq(_, _)

\* values.into_iter().map(ResponseValue::from_value).collect(): the children
\* are encoded left to right; a panic in one ends the walk and leaves the
\* buffers of the children encoded before it allocated
EncodeSeq(values, h) ==
  IF values = <<>>
    THEN [panic |-> FALSE, rvs |-> <<>>, h |-> h]
    ELSE LET first == from_value(Head(values), h)
         IN  IF first.panic
               THEN [panic |-> TRUE, rvs |-> <<>>, h |-> first.h]
               ELSE LET rest == EncodeSeq(Tail(values), first.h)
                    IN  [panic |-> rest.panic,
                         rvs |-> IF rest.panic THEN <<>> ELSE <<first.rv>> \o rest.rvs,
                         h |-> rest.h]

\* ResponseValue::from_value
from_value(value, h) ==
  CASE value.t = "Nil" ->
         [panic |-> FALSE, rv |-> [DefaultResponseValue EXCEPT !.typ = "Null"], h |-> h]
    [] value.t = "Okay" ->
         [panic |-> FALSE, rv |-> [DefaultResponseValue EXCEPT !.typ = "OK"], h |-> h]
    [] value.t = "Int" ->
         [panic |-> FALSE, rv |-> ResponseValue("Int", value.n, 0), h |-> h]
    [] value.t = "Double" ->
         [panic |-> FALSE, rv |-> ResponseValue("Float", value.n, 0), h |-> h]
    [] value.t = "Boolean" ->
         [panic |-> FALSE,
          rv |-> ResponseValue("Bool", IF value.n = 1 THEN 1 ELSE 0, 0), h |-> h]
    [] value.t \in {"BulkString", "SimpleString", "VerbatimString"} ->
         LET p == convert_vec_to_pointer("u8", ByteLen(value.b), <<value.b>>, h)
         IN  [panic |-> FALSE,
              rv |-> ResponseValue(ValueTypeOfString(value.t), p.ptr, as_u32(p.len)),
              h |-> p.h]
    [] value.t = "ServerError" ->
         \* err.details().unwrap()
         IF value.n = -1
           THEN [panic |-> TRUE, rv |-> DefaultResponseValue, h |-> h]
           ELSE LET p == convert_vec_to_pointer("u8", ByteLen(value.b), <<value.b>>, h)
                IN  [panic |-> FALSE,
                     rv |-> ResponseValue("Error", p.ptr, as_u32(p.len)),
                     h |-> p.h]
    [] value.t \in ContainerTypes ->
         LET kids == EncodeSeq(ChildValues(value), h)
         IN  IF kids.panic
               THEN [panic |-> TRUE, rv |-> DefaultResponseValue, h |-> kids.h]
               ELSE LET p == convert_vec_to_pointer("rv", usize(Len(kids.rvs)),
                                                    kids.rvs, kids.h)
                    IN  [panic |-> FALSE,
                         rv |-> ResponseValue(ValueTypeOfContainer(value.t), p.ptr,
                                              as_u32(p.len)),
                         h |-> p.h]
    \* _ => todo!()
    [] OTHER -> [panic |-> TRUE, rv |-> DefaultResponseValue, h |-> h]

\* the drop of a Vec rebuilt by Vec::from_raw_parts(ptr, size, size): a Vec
\* of capacity 0 deallocates nothing, any other hands ptr back to the
\* allocator with the capacity it was rebuilt with
DropVec(ptr, cap, h) ==
  IF cap = 0
    THEN h
    ELSE [h EXCEPT ![ptr].frees = @ + 1,
                   ![ptr].bad = @ \/ h[ptr].cap # usize(cap)]

RECURSIVE free_memory(_, _)
RECURSIVE FreeSeq(_, _)

\* for val in vec { val.free_memory() }
FreeSeq(rvs, h) ==
  IF rvs = <<>> THEN h ELSE FreeSeq(Tail(rvs), free_memory(Head(rvs), h))

\* ResponseValue::free_memory
free_memory(rv, h) ==
  CASE rv.typ \in {"Array", "Set", "Map"} ->
         LET vec == IF rv.size = 0
                      THEN <<>>
                      ELSE SubSeq(h[rv.val].data, 1, rv.size)
         IN  DropVec(rv.val, rv.size, FreeSeq(vec, h))
    [] rv.typ \in {"String", "BulkString", "Error"} -> DropVec(rv.val, rv.size, h)
    [] OTHER -> h

\* Box::into_raw(Box::new(ResponseValue::from_value(value))): the record is
\* moved into a heap box whose address goes to the success callback
BoxResponse(rv, h) ==
  [ptr |-> Len(h) + 1, h |-> Append(h, Cell("box", usize(1), <<rv>>))]

\* free_response: Box::leak(Box::from_raw(ptr)).free_memory()
free_response(ptr, h) == free_memory(h[ptr].data[1], h)

\* ------------------------------------------------------------------------
\* Requests, tasks and callbacks
\* ------------------------------------------------------------------------

VARIABLES
  client,      \* "open", or "closed" once close_client has released the client
  req,         \* per request: entry point, callback_index, position of its task
  cb,          \* per request: the callbacks invoked for it, in order
  dispatched,  \* per request: the calls made to the underlying client
  mem,         \* per request: the heap of the buffers of its response
  registry,    \* the identifiers held by the cluster scan cursor container
  issued,      \* the identifiers the container has ever handed out
  call,        \* per request: the arguments it was submitted with, the scan
               \* state it resolved and the answer of the underlying client
  value,       \* the reply value handed to from_value
  vheap,       \* the heap of its encoding
  vptr,        \* the address of its boxed root record, 0 before it is encoded
  vphase,      \* "input", "encoded", "panicked" or "released"
  arg,         \* the argument of a conversion applied alone
  out,         \* its result, NoResult before it is applied
  shut         \* the PubSub task of the client and the position of close_client

vars ==
  <<client, req, cb, dispatched, mem, registry, issued, call,
    value, vheap, vptr, vphase, arg, out, shut>>

reqVars == <<client, req, cb, dispatched, mem, registry, issued, call>>

valueVars == <<value, vheap, vptr, vphase, arg, out, shut>>

\* let timeout = std::time::Duration::from_secs(5)
GracePeriod == 5

\* a client created without a PubSub callback task: pubsub_shutdown and
\* pubsub_task hold None.  tx and handle are what the two mutexes hold, task
\* is "none", "running", "finished", "failed" (panicked) or "dropped",
\* signals counts the shutdown signals sent, pc is the position of
\* close_client ("idle" before it is called), wait is how its wait ended,
\* elapsed the seconds it has waited, warned whether it logged the warning
\* of a timeout
NoPubSub ==
  [tx |-> "None", handle |-> "None", task |-> "none", signals |-> 0,
   pc |-> "idle", wait |-> "none", elapsed |-> 0, warned |-> FALSE]

\* a client created as a subscriber with a callback: the task is spawned,
\* the sender and the JoinHandle are stored
WithPubSub == [NoPubSub EXCEPT !.tx = "Some", !.handle = "Some", !.task = "running"]

NoResult == [tag |-> "none"]

Req == 1..MaxReq

\* the callback_index the caller gives to its r-th request
IndexOf(r) == 10 + r

EntryPoints ==
  {"command", "batch", "invoke_script", "request_cluster_scan",
   "update_connection_password", "refresh_iam_token"}

\* glide_core::errors::RequestErrorType
RequestErrorType == {"Unspecified", "ExecAbort", "Timeout", "Disconnect"}

\* an error message: its text and whether it holds an interior NUL byte
Msg(text) == [text |-> text, nul |-> FALSE]

\* st: "idle" (not submitted), "rejected" (the entry point returned without a
\* task), "queued" (task spawned, not polled yet), "awaiting" (task polled: its
\* guard is armed and the client call is pending), "done" (task ran to its
\* end), "panicked" (task unwound) or "dropped" (task dropped by the runtime)
\* fault: where a panicked task started to unwind
\* bad: what was malformed in the arguments given to the entry point
\* released: the receiver has called free_response on the response
Idle ==
  [st |-> "idle", ep |-> "none", idx |-> 0, op |-> "none", fault |-> "none",
   bad |-> {}, released |-> FALSE]

\* what is kept of a call: for a scan the cursor presented, whether the
\* container held it when the entry point ran, whether the argument list was
\* malformed and the scan state resolved (scan_state_cursor: "new" or the
\* identifier looked up); for a batch cmd_count, the index of the first
\* command without a template (-1 if none), is_atomic and raise_on_error;
\* and the answer of the underlying client ("ok" with the reply, or "err")
NoCall ==
  [cursor |-> "none", held |-> FALSE, malformed |-> FALSE, state |-> "none",
   cmd_count |-> 0, first_bad |-> -1, is_atomic |-> FALSE,
   raise_on_error |-> FALSE, answer |-> "none", reply |-> Nil]

Success(index, ptr, ctx) ==
  [kind |-> "success", index |-> index, ptr |-> ptr, text |-> "",
   etype |-> "none", ctx |-> ctx]

Failure(index, text, etype, ctx) ==
  [kind |-> "failure", index |-> index, ptr |-> 0, text |-> text,
   etype |-> etype, ctx |-> ctx]

\* report_error passing index 0 instead of the request's callback_index
report_error_index0(callback_index, msg, error_type, ctx) ==
  IF msg.nul
    THEN [calls |-> <<>>, panic |-> TRUE]
    ELSE [calls |-> <<Failure(0, msg.text, error_type, ctx)>>, panic |-> FALSE]

\* report_error: CString::new(..).expect(..) panics on an interior NUL before
\* the callback is reached; otherwise the failure callback is invoked and the
\* CString is taken back and dropped
report_error(callback_index, msg, error_type, ctx) ==
  IF msg.nul
    THEN [calls |-> <<>>, panic |-> TRUE]
    ELSE [calls |-> <<Failure(callback_index, msg.text, error_type, ctx)>>,
          panic |-> FALSE]

\* a PanicGuard whose drop reports nothing
PanicGuardDropSilent(panicked, callback_index, ctx) == <<>>

\* impl Drop for PanicGuard
PanicGuardDrop(panicked, callback_index, ctx) ==
  IF panicked
    THEN report_error(callback_index, Msg("Native function panicked"),
                      "Unspecified", ctx).calls
    ELSE <<>>

\* CmdInfo: whether its request type has a command template
CmdInfo == [known : BOOLEAN]

\* create_cmd that builds a command for every request type
create_cmd_any(info) == [ok |-> TRUE, err |-> Msg("")]

\* create_cmd
create_cmd(info) ==
  IF info.known
    THEN [ok |-> TRUE, err |-> Msg("")]
    ELSE [ok |-> FALSE, err |-> Msg("Couldn't fetch command type")]

RECURSIVE FirstBad(_, _)
\* the index of the first command create_cmd rejects, -1 if there is none
FirstBad(cmds, i) ==
  IF cmds = <<>> THEN -1
  ELSE IF ~create_cmd(Head(cmds)).ok THEN i
  ELSE FirstBad(Tail(cmds), i + 1)

\* create_pipeline naming the failing command by its position counted from 1
create_pipeline_position(info) ==
  IF FirstBad(info.cmds, 0) = -1
    THEN [ok |-> TRUE, err |-> Msg(""), atomic |-> info.is_atomic,
          len |-> Len(info.cmds)]
    ELSE [ok |-> FALSE,
          err |-> Msg("Coudln't create " \o ToString(FirstBad(info.cmds, 0) + 1)
                        \o "'th command: \"Couldn't fetch command type\""),
          atomic |-> FALSE, len |-> 0]

\* create_pipeline: Err(format!("Coudln't create {i:?}'th command: {err:?}"))
\* at the first command create_cmd rejects, else the pipeline of all commands,
\* made atomic if is_atomic
create_pipeline(info) ==
  IF FirstBad(info.cmds, 0) = -1
    THEN [ok |-> TRUE, err |-> Msg(""), atomic |-> info.is_atomic,
          len |-> Len(info.cmds)]
    ELSE [ok |-> FALSE,
          err |-> Msg("Coudln't create " \o ToString(FirstBad(info.cmds, 0))
                        \o "'th command: "
                        \o "\"" \o create_cmd(info.cmds[FirstBad(info.cmds, 0) + 1]).err.text
                        \o "\""),
          atomic |-> FALSE, len |-> 0]

\* pub struct BatchInfo { cmd_count, cmds, is_atomic }: the batches of up to
\* n commands
BatchInfo(n) ==
  [cmds : UNION {[1..k -> CmdInfo] : k \in 1..n}, is_atomic : BOOLEAN]

\* An entry point that reported an error and returned: the callbacks are those
\* of the report followed by the drop of its guard, no task is spawned
Reject(r, ep, bad, report, guardArmed) ==
  /\ req' = [req EXCEPT ![r] = [Idle EXCEPT !.st = "rejected", !.ep = ep,
                                           !.idx = IndexOf(r), !.bad = bad]]
  /\ cb' = [cb EXCEPT ![r] = report.calls \o
                 PanicGuardDrop(guardArmed \/ report.panic, IndexOf(r), "entry")]
  /\ UNCHANGED <<client, dispatched, mem, registry, issued, valueVars>>

\* an entry point that makes the client call itself, before it returns
SpawnBlocking(r, ep, bad, op) ==
  /\ req' = [req EXCEPT ![r] = [Idle EXCEPT !.st = "awaiting", !.ep = ep,
                                           !.idx = IndexOf(r), !.bad = bad,
                                           !.op = op]]
  /\ cb' = cb
  /\ dispatched' = [dispatched EXCEPT ![r] = Append(@, [op |-> op, ctx |-> "entry"])]
  /\ UNCHANGED <<client, mem, registry, issued, valueVars>>

\* client.runtime.spawn(async move {..}); panic_guard.panicked = false
Spawn(r, ep, bad, op) ==
  /\ req' = [req EXCEPT ![r] = [Idle EXCEPT !.st = "queued", !.ep = ep,
                                           !.idx = IndexOf(r), !.bad = bad,
                                           !.op = op]]
  /\ cb' = [cb EXCEPT ![r] = PanicGuardDrop(FALSE, IndexOf(r), "entry")]
  /\ UNCHANGED <<client, dispatched, mem, registry, issued, valueVars>>

\* the safety contract of every entry point: the client is not closed yet;
\* requests are numbered in the order they are submitted
CanSubmit(r) ==
  /\ client = "open"
  /\ shut.pc = "idle"
  /\ req[r].st = "idle"
  /\ \A q \in Req : q < r => req[q].st # "idle"

\* pub unsafe extern "C-unwind" fn command
command(r) ==
  /\ CanSubmit(r)
  /\ \E info \in CmdInfo :
       LET cmd == create_cmd(info)
           bad == IF info.known THEN {} ELSE {"command"}
       IN  IF ~cmd.ok
             THEN Reject(r, "command", bad,
                         report_error(IndexOf(r), cmd.err, "Unspecified", "entry"), TRUE)
             ELSE Spawn(r, "command", bad, "send_command")
  /\ call' = call

\* pub unsafe extern "C-unwind" fn batch, called with a batch of infos and a
\* raise_on_error of flags
batch(r, infos, flags) ==
  /\ CanSubmit(r)
  /\ \E info \in infos, raise_on_error \in flags :
       LET pipeline == create_pipeline(info)
           bad == IF \A i \in DOMAIN info.cmds : info.cmds[i].known
                    THEN {} ELSE {"batch"}
           unknown == {i \in DOMAIN info.cmds : ~info.cmds[i].known}
           first_bad == IF unknown = {} THEN -1
                        ELSE (CHOOSE i \in unknown : \A j \in unknown : i <= j) - 1
       IN  /\ IF ~pipeline.ok
                THEN Reject(r, "batch", bad,
                            report_error(IndexOf(r), pipeline.err, "Unspecified",
                                         "entry"), TRUE)
                ELSE Spawn(r, "batch", bad,
                           IF pipeline.atomic THEN "send_transaction"
                                              ELSE "send_pipeline")
           /\ call' = [call EXCEPT ![r] =
                         [NoCall EXCEPT !.cmd_count = Len(info.cmds),
                                        !.first_bad = first_bad,
                                        !.is_atomic = info.is_atomic,
                                        !.raise_on_error = raise_on_error]]

\* pub unsafe extern "C-unwind" fn invoke_script
invoke_script(r) ==
  /\ CanSubmit(r)
  /\ \E hashIsUtf8 \in BOOLEAN :
       IF ~hashIsUtf8
         THEN Reject(r, "invoke_script", {"hash"},
                     report_error(IndexOf(r), Msg("Invalid hash string"),
                                  "Unspecified", "entry"), TRUE)
         ELSE Spawn(r, "invoke_script", {}, "invoke_script")
  /\ call' = call

\* the arguments of a scan: keyword tokens, a pattern or type name ("x"), a
\* number ("7"), an empty value and a value that is not valid UTF-8
ScanTokens == {"MATCH", "TYPE", "COUNT", "x", "7", "", "nonutf8"}

\* the argument lists of up to n elements
ScanArgListsUpTo(n) == UNION {[1..k -> ScanTokens] : k \in 0..n}

IsUtf8(t) == t # "nonutf8"

\* count_str.parse::<u32>()
ParsesAsU32(t) == t = "7"

RECURSIVE ScanLoop(_, _)
\* the while-let loop of build_cluster_scan_args over the argument vector
ScanLoop(args, acc) ==
  IF args = <<>> THEN [acc EXCEPT !.ok = TRUE]
  ELSE IF Head(args) \in {"MATCH", "TYPE", "COUNT"}
    THEN IF Tail(args) = <<>>
           THEN [acc EXCEPT !.ok = FALSE,
                            !.err = "No argument following " \o Head(args) \o "."]
           ELSE LET v == Head(Tail(args))
                    rest == Tail(Tail(args))
                IN  CASE Head(args) = "MATCH" ->
                           ScanLoop(rest, [acc EXCEPT !.pattern = v])
                      [] Head(args) = "TYPE" ->
                           ScanLoop(rest, [acc EXCEPT !.type = v])
                      [] Head(args) = "COUNT" ->
                           ScanLoop(rest, [acc EXCEPT !.count = v])
    ELSE [acc EXCEPT !.ok = FALSE, !.err = "Unknown cluster scan argument"]

\* build_cluster_scan_args: None (after one report_error) or the built
\* ClusterScanArgs
build_cluster_scan_args(args) ==
  LET none == [ok |-> TRUE, err |-> "", pattern |-> "", type |-> "", count |-> ""]
      parsed == IF args = <<>> THEN none ELSE ScanLoop(args, none)
  IN  IF ~parsed.ok THEN parsed
      ELSE IF parsed.type # "" /\ ~IsUtf8(parsed.type)
        THEN [parsed EXCEPT !.ok = FALSE, !.err = "Invalid UTF-8 in TYPE argument"]
      ELSE IF parsed.count # "" /\ ~IsUtf8(parsed.count)
        THEN [parsed EXCEPT !.ok = FALSE, !.err = "Invalid UTF-8 in COUNT argument"]
      ELSE IF parsed.count # "" /\ ~ParsesAsU32(parsed.count)
        THEN [parsed EXCEPT !.ok = FALSE, !.err = "Invalid COUNT value"]
      ELSE parsed

\* whether a flat argument list is a sequence of MATCH/TYPE/COUNT pairs whose
\* TYPE value is valid UTF-8 and whose COUNT value is valid UTF-8 and a number;
\* an empty TYPE or COUNT value is skipped by the builder
ScanArgsParse(args) ==
  /\ Len(args) % 2 = 0
  /\ \A i \in 1..Len(args) :
       i % 2 = 1 =>
         /\ args[i] \in {"MATCH", "TYPE", "COUNT"}
         /\ args[i] = "TYPE" /\ (\A j \in (i + 1)..Len(args) :
                                   j % 2 = 1 => args[j] # "TYPE")
              => args[i + 1] = "" \/ IsUtf8(args[i + 1])
         /\ args[i] = "COUNT" /\ (\A j \in (i + 1)..Len(args) :
                                    j % 2 = 1 => args[j] # "COUNT")
              => args[i + 1] = "" \/ ParsesAsU32(args[i + 1])

\* the argument lists the parser is to reject: a MATCH, COUNT or TYPE token
\* with no following value, an unrecognized token, a TYPE value that is not
\* valid UTF-8, a COUNT value that is not valid UTF-8 or not a number
ScanArgsMalformed(args) ==
  \E i \in 1..Len(args) :
    /\ i % 2 = 1
    /\ \/ args[i] \notin {"MATCH", "COUNT", "TYPE"}
       \/ i = Len(args)
       \/ i < Len(args) /\ args[i] = "TYPE" /\ ~IsUtf8(args[i + 1])
       \/ i < Len(args) /\ args[i] = "COUNT"
            /\ ~(IsUtf8(args[i + 1]) /\ ParsesAsU32(args[i + 1]))

\* the identifier the container generates for the scan state left by the
\* scan step of request r; no identifier is generated twice
CursorIdFor(r) == "c" \o ToString(r)

\* the cursor strings a caller presents: the initial cursor, the identifiers
\* it was given, one never handed out, and bytes that are not UTF-8
CursorArgs == {"0", "zz", "nonutf8"} \cup issued

\* a cursor conversion that takes every cursor for the initial one
CursorIdOfInitial(cursor) == "0"

\* CStr::from_ptr(cursor).to_str().unwrap_or("0")
CursorIdOf(cursor) == IF IsUtf8(cursor) THEN cursor ELSE "0"

\* get_cluster_scan_cursor(cursor_id): the scan state the container holds
\* under the identifier, or an error
get_cluster_scan_cursor(cursor_id, reg) ==
  IF cursor_id \in reg
    THEN [ok |-> TRUE, state |-> cursor_id]
    ELSE [ok |-> FALSE, state |-> "none"]

\* glide_core::cluster_scan_container::remove_scan_state_cursor(cursor_id)
remove_scan_state_cursor(cursor_id, reg) == reg \ {cursor_id}

\* pub unsafe extern "C-unwind" fn request_cluster_scan, called with a cursor
\* of cursors and an argument list of lists
request_cluster_scan(r, cursors, lists) ==
  /\ CanSubmit(r)
  /\ \E cursor \in cursors, args \in lists :
       LET cursor_id == CursorIdOf(cursor)
           scan_args == build_cluster_scan_args(args)
           found == get_cluster_scan_cursor(cursor_id, registry)
           bad == (IF cursor_id # "0" /\ ~found.ok THEN {"cursor"} ELSE {})
                  \cup (IF ScanArgsParse(args) THEN {} ELSE {"scan_args"})
           scan_state_cursor ==
             IF cursor_id = "0" THEN "new" ELSE found.state
       IN  /\ IF cursor_id # "0" /\ ~found.ok
                THEN Reject(r, "request_cluster_scan", bad,
                            report_error(IndexOf(r),
                                         Msg("Invalid cursor ID: " \o cursor_id),
                                         "Unspecified", "entry"), FALSE)
              ELSE IF ~scan_args.ok
                THEN Reject(r, "request_cluster_scan", bad,
                            report_error(IndexOf(r), Msg(scan_args.err),
                                         "Unspecified", "entry"), FALSE)
              ELSE Spawn(r, "request_cluster_scan", bad, "cluster_scan")
           /\ call' = [call EXCEPT ![r] =
                         [NoCall EXCEPT !.cursor = cursor,
                                        !.held = cursor \in registry,
                                        !.malformed = ScanArgsMalformed(args),
                                        !.state = scan_state_cursor]]

\* a removal that empties the container when its argument is null or is not
\* valid UTF-8
RemoveCursorUnchecked(cursor, reg) ==
  IF cursor # "null" /\ IsUtf8(cursor)
    THEN remove_scan_state_cursor(cursor, reg)
    ELSE {}

\* the body of remove_cluster_scan_cursor: if cursor_id.is_null() { return };
\* if let Ok(cursor_str) = ..to_str() { remove_scan_state_cursor(cursor_str) }
RemoveCursor(cursor, reg) ==
  IF cursor # "null" /\ IsUtf8(cursor)
    THEN remove_scan_state_cursor(cursor, reg)
    ELSE reg

\* pub unsafe extern "C" fn remove_cluster_scan_cursor, called with a cursor
\* of cursors
remove_cluster_scan_cursor(cursors) ==
  /\ \E cursor \in cursors : registry' = RemoveCursor(cursor, registry)
  /\ UNCHANGED <<client, req, cb, dispatched, mem, issued, call, valueVars>>

\* the password argument: a null pointer, an empty string, a password, or
\* bytes that are not valid UTF-8
PasswordArgs == {"null", "", "secret", "nonutf8"}

\* pub unsafe extern "C-unwind" fn update_connection_password
update_connection_password(r) ==
  /\ CanSubmit(r)
  /\ \E password \in PasswordArgs :
       IF password # "null" /\ ~IsUtf8(password)
         THEN Reject(r, "update_connection_password", {"password"},
                     report_error(IndexOf(r), Msg("Invalid password argument"),
                                  "Unspecified", "entry"), FALSE)
         ELSE Spawn(r, "update_connection_password",
                    IF password = "nonutf8" THEN {"password"} ELSE {},
                    "update_connection_password")
  /\ call' = call

\* pub unsafe extern "C-unwind" fn refresh_iam_token
refresh_iam_token(r) ==
  /\ CanSubmit(r)
  /\ Spawn(r, "refresh_iam_token", {}, "refresh_iam_token")
  /\ call' = call

\* the replies of the underlying client to one command: a reply the task
\* encodes and a reply with a variant it has no arm for
ReplyValues ==
  { ArrayV(<<Sib1, Nil>>), Val("Push", 0, NoBytes, <<>>) }

\* the replies to one command of a batch submitted alone: a reply without a
\* buffer, a reply with one, and one of a variant the task has no arm for
CommandReplies ==
  { Okay, Sib1, Val("Push", 0, NoBytes, <<>>) }

\* the result of one command of a pipeline: one of the replies values, or
\* with raise_on_error unset the server's error in place, with detail text
\* or with an error code only
CommandOutcomes(raise_on_error, values) ==
  IF raise_on_error
    THEN values
    ELSE values \cup {StrV("ServerError", [tag |-> 1, hi |-> 0, lo |-> 1]),
                      ServerErrorNoDetails}

\* the Ok replies of send_pipeline for cmd_count commands: one result per
\* command, in issuance order
PipelineReplies(cmd_count, raise_on_error, values) ==
  {ArrayV(results) :
     results \in [1..cmd_count -> CommandOutcomes(raise_on_error, values)]}

\* replies in which a token refresh is answered like a command
RepliesOfCommand(r, values) ==
  CASE req[r].op = "send_pipeline" ->
         PipelineReplies(call[r].cmd_count, call[r].raise_on_error, values)
    [] OTHER -> values

\* the Ok replies of the client call of request r, its commands answered
\* with values; client.refresh_iam_token() returns Ok(()) and the task
\* encodes Value::Okay
RepliesOf(r, values) ==
  CASE req[r].op = "refresh_iam_token" -> {Okay}
    [] req[r].op = "send_pipeline" ->
         PipelineReplies(call[r].cmd_count, call[r].raise_on_error, values)
    [] OTHER -> values

\* the first poll of a spawned task: the task's PanicGuard is created armed
\* and the call to the underlying client is made and awaited
TaskPoll(r) ==
  /\ client = "open"
  /\ req[r].st = "queued"
  /\ req' = [req EXCEPT ![r].st = "awaiting"]
  /\ dispatched' = [dispatched EXCEPT ![r] = Append(@, [op |-> req[r].op, ctx |-> "task"])]
  /\ UNCHANGED <<client, cb, mem, registry, issued, call, valueVars>>

\* the errors of the underlying client used for requests: error_type(&err)
\* and whether error_message(&err) holds an interior NUL byte
ErrorReplies ==
  { [etype |-> "Timeout", nul |-> FALSE],
    [etype |-> "Unspecified", nul |-> FALSE],
    [etype |-> "Disconnect", nul |-> TRUE] }

\* a task that releases the response once the success callback has returned
TaskOkDropsMessage(r, v) ==
  LET enc == from_value(v, EmptyHeap)
      box == BoxResponse(enc.rv, enc.h)
  IN  IF enc.panic
        THEN /\ mem' = [mem EXCEPT ![r] = enc.h]
             /\ cb' = [cb EXCEPT ![r] = @ \o PanicGuardDrop(TRUE, req[r].idx, "task")]
             /\ req' = [req EXCEPT ![r].st = "panicked", ![r].fault = "encode"]
        ELSE /\ mem' = [mem EXCEPT ![r] = free_response(box.ptr, box.h)]
             /\ cb' = [cb EXCEPT ![r] = @ \o <<Success(req[r].idx, box.ptr, "task")>>]
             /\ req' = [req EXCEPT ![r].st = "done"]

\* Ok(value) => { Box::into_raw(Box::new(from_value(value))); success_callback };
\* panic_guard.panicked = false.  A panic in from_value unwinds the task and
\* drops its armed guard.
TaskOk(r, v) ==
  LET enc == from_value(v, EmptyHeap)
      box == BoxResponse(enc.rv, enc.h)
  IN  IF enc.panic
        THEN /\ mem' = [mem EXCEPT ![r] = enc.h]
             /\ cb' = [cb EXCEPT ![r] = @ \o PanicGuardDrop(TRUE, req[r].idx, "task")]
             /\ req' = [req EXCEPT ![r].st = "panicked", ![r].fault = "encode"]
        ELSE /\ mem' = [mem EXCEPT ![r] = box.h]
             /\ cb' = [cb EXCEPT ![r] = @ \o <<Success(req[r].idx, box.ptr, "task")>>
                                          \o PanicGuardDrop(FALSE, req[r].idx, "task")]
             /\ req' = [req EXCEPT ![r].st = "done"]

\* Err(err) => report_error(failure_callback, callback_index, error_message(&err),
\* error_type(&err)); panic_guard.panicked = false.  A panic in report_error
\* unwinds the task and drops its armed guard.
TaskErr(r, err) ==
  LET report == report_error(req[r].idx, [text |-> "error_message", nul |-> err.nul],
                             err.etype, "task")
  IN  /\ cb' = [cb EXCEPT ![r] = @ \o report.calls
                                   \o PanicGuardDrop(report.panic, req[r].idx, "task")]
      /\ req' = [req EXCEPT ![r].st = IF report.panic THEN "panicked" ELSE "done",
                            ![r].fault = IF report.panic THEN "message" ELSE "none"]
      /\ mem' = mem

\* a task whose scan takes the identifier it was given out of the container
\* when the client call returns
TaskCompleteConsumesCursor(r, values) ==
  /\ client = "open"
  /\ req[r].st = "awaiting"
  /\ \/ \E v \in RepliesOf(r, values) :
          /\ TaskOk(r, v)
          /\ call' = [call EXCEPT ![r].answer = "ok", ![r].reply = v]
     \/ \E err \in ErrorReplies :
          /\ TaskErr(r, err)
          /\ call' = [call EXCEPT ![r].answer = "err"]
  /\ \/ registry' = registry \ {call[r].cursor} /\ issued' = issued
     \/ /\ req[r].op = "cluster_scan"
        /\ call'[r].answer = "ok"
        /\ registry' = (registry \ {call[r].cursor}) \cup {CursorIdFor(r)}
        /\ issued' = issued \cup {CursorIdFor(r)}
  /\ UNCHANGED <<client, dispatched, valueVars>>

\* the rest of a scheduled task, from the return of the client call, which
\* answers a command with one of values, to the end of the async block
TaskComplete(r, values) ==
  /\ client = "open"
  /\ req[r].st = "awaiting"
  /\ \/ \E v \in RepliesOf(r, values) :
          /\ TaskOk(r, v)
          /\ call' = [call EXCEPT ![r].answer = "ok", ![r].reply = v]
     \/ \E err \in ErrorReplies :
          /\ TaskErr(r, err)
          /\ call' = [call EXCEPT ![r].answer = "err"]
  \* a scan step that is not the last leaves its scan state in the container
  \* under a new identifier
  /\ \/ registry' = registry /\ issued' = issued
     \/ /\ req[r].op = "cluster_scan"
        /\ call'[r].answer = "ok"
        /\ registry' = registry \cup {CursorIdFor(r)}
        /\ issued' = issued \cup {CursorIdFor(r)}
  /\ UNCHANGED <<client, dispatched, valueVars>>

\* a task whose callback (extern "C-unwind") unwinds instead of returning:
\* the match arm is left by unwinding, panic_guard.panicked = false after the
\* match is not reached and the guard is dropped as it was armed at task entry
TaskCallbackUnwinds(r, values) ==
  /\ client = "open"
  /\ req[r].st = "awaiting"
  /\ \/ \E v \in RepliesOf(r, values) :
          LET enc == from_value(v, EmptyHeap)
              box == BoxResponse(enc.rv, enc.h)
          IN  /\ ~enc.panic
              /\ mem' = [mem EXCEPT ![r] = box.h]
              /\ cb' = [cb EXCEPT ![r] = @ \o <<Success(req[r].idx, box.ptr, "task")>>
                                           \o PanicGuardDrop(TRUE, req[r].idx, "task")]
              /\ call' = [call EXCEPT ![r].answer = "ok", ![r].reply = v]
     \/ \E err \in ErrorReplies :
          LET report == report_error(req[r].idx,
                                     [text |-> "error_message", nul |-> err.nul],
                                     err.etype, "task")
          IN  /\ ~report.panic
              /\ mem' = mem
              /\ cb' = [cb EXCEPT ![r] = @ \o report.calls
                                           \o PanicGuardDrop(TRUE, req[r].idx, "task")]
              /\ call' = [call EXCEPT ![r].answer = "err"]
  /\ req' = [req EXCEPT ![r].st = "panicked", ![r].fault = "callback"]
  /\ UNCHANGED <<client, dispatched, registry, issued, valueVars>>

\* the drop of a task by the runtime when the runtime is dropped: a task that
\* was polled drops its armed guard, a task never polled holds no guard
DropTask(r, rq) ==
  CASE rq.st = "queued" -> [rq EXCEPT !.st = "dropped"]
    [] rq.st = "awaiting" -> [rq EXCEPT !.st = "dropped"]
    [] OTHER -> rq

DropTaskCalls(r, rq) ==
  IF rq.st = "awaiting" THEN PanicGuardDrop(TRUE, rq.idx, "shutdown") ELSE <<>>

\* unsafe { Arc::decrement_strong_count(client_ptr as *const Client) }: the
\* count of the pointer handed out by create_client goes to 0, the Client
\* and its Runtime are dropped, and with the runtime every task that has
\* not finished
DropClient ==
  /\ client = "open"
  /\ client' = "closed"
  /\ req' = [r \in Req |-> DropTask(r, req[r])]
  /\ cb' = [r \in Req |-> cb[r] \o DropTaskCalls(r, req[r])]
  /\ UNCHANGED <<dispatched, mem, registry, issued, call>>

\* pub extern "C" fn close_client of a client without a PubSub task: both
\* mutexes hold None, nothing is signalled or waited for
close_client ==
  /\ shut.pc = "idle"
  /\ shut.tx = "None" /\ shut.handle = "None"
  /\ DropClient
  /\ UNCHANGED valueVars

\* close_client, first block: if let Some(shutdown_tx) = guard.take()
\* { let _ = shutdown_tx.send(()) }, skipped by a call that sends nothing
CloseSignalSkipped ==
  /\ client = "open"
  /\ shut.pc = "idle"
  /\ shut' = [shut EXCEPT !.pc = "signalled", !.tx = "None"]
  /\ UNCHANGED <<reqVars, value, vheap, vptr, vphase, arg, out>>

\* close_client, first block: if let Some(shutdown_tx) = guard.take()
\* { let _ = shutdown_tx.send(()) }
CloseSignal ==
  /\ client = "open"
  /\ shut.pc = "idle"
  /\ shut' = [shut EXCEPT !.pc = "signalled",
                          !.tx = "None",
                          !.signals = IF shut.tx = "Some" THEN @ + 1 ELSE @]
  /\ UNCHANGED <<reqVars, value, vheap, vptr, vphase, arg, out>>

\* close_client, second block: if let Some(task_handle) = guard.take() the
\* wait begins, otherwise there is nothing to wait for
CloseTakeHandle ==
  /\ shut.pc = "signalled"
  /\ shut' = [shut EXCEPT !.pc = IF shut.handle = "Some" THEN "waiting" ELSE "waited",
                          !.handle = "None"]
  /\ UNCHANGED <<reqVars, value, vheap, vptr, vphase, arg, out>>

\* a second of tokio::time::timeout(timeout, task_handle) passes
CloseTick ==
  /\ shut.pc = "waiting"
  /\ shut.task = "running"
  /\ shut.elapsed < GracePeriod
  /\ shut' = [shut EXCEPT !.elapsed = @ + 1]
  /\ UNCHANGED <<reqVars, value, vheap, vptr, vphase, arg, out>>

\* a wait that returns only when the task has finished or panicked
CloseWaitEndNoTimeout ==
  /\ shut.pc = "waiting"
  /\ \/ shut.task = "finished" /\ shut' = [shut EXCEPT !.pc = "waited", !.wait = "completed"]
     \/ shut.task = "failed"
          /\ shut' = [shut EXCEPT !.pc = "waited", !.wait = "error", !.warned = TRUE]
  /\ UNCHANGED <<reqVars, value, vheap, vptr, vphase, arg, out>>

\* block_on returns: Ok(Ok(())) when the task has finished, Ok(Err(e)) when
\* it has panicked, Err(_) when the timeout has elapsed; the last two log a
\* warning.  The JoinHandle is dropped, which detaches the task.
CloseWaitEnd ==
  /\ shut.pc = "waiting"
  /\ \/ shut.task = "finished" /\ shut' = [shut EXCEPT !.pc = "waited", !.wait = "completed"]
     \/ shut.task = "failed"
          /\ shut' = [shut EXCEPT !.pc = "waited", !.wait = "error", !.warned = TRUE]
     \/ shut.task = "running" /\ shut.elapsed = GracePeriod
          /\ shut' = [shut EXCEPT !.pc = "waited", !.wait = "timeout", !.warned = TRUE]
  /\ UNCHANGED <<reqVars, value, vheap, vptr, vphase, arg, out>>

\* close_client, last statement: the count is decremented; the tasks of the
\* runtime that are still running are dropped with it
CloseRelease ==
  /\ shut.pc = "waited"
  /\ DropClient
  /\ shut' = [shut EXCEPT !.pc = "released",
                          !.task = IF @ = "running" THEN "dropped" ELSE @]
  /\ UNCHANGED <<value, vheap, vptr, vphase, arg, out>>

\* the PubSub task: the select! loop leaves through the shutdown branch once
\* the signal was sent (or the sender dropped), or the task panics in the
\* callback of a push message
PubSubStep ==
  /\ client = "open"
  /\ shut.task = "running"
  /\ \/ shut.signals > 0 /\ shut' = [shut EXCEPT !.task = "finished"]
     \/ shut' = [shut EXCEPT !.task = "failed"]
  /\ UNCHANGED <<reqVars, value, vheap, vptr, vphase, arg, out>>

\* the receiver of a success callback calls free_response on the pointer it
\* was given, once
FreeResponse(r) ==
  /\ ~req[r].released
  /\ \E i \in 1..Len(cb[r]) :
       /\ cb[r][i].kind = "success"
       /\ mem' = [mem EXCEPT ![r] = free_response(cb[r][i].ptr, @)]
  /\ req' = [req EXCEPT ![r].released = TRUE]
  /\ UNCHANGED <<client, cb, dispatched, registry, issued, call, valueVars>>

InitReq ==
  /\ client = "open"
  /\ req = [r \in Req |-> Idle]
  /\ cb = [r \in Req |-> <<>>]
  /\ dispatched = [r \in Req |-> <<>>]
  /\ mem = [r \in Req |-> EmptyHeap]
  /\ registry = {}
  /\ issued = {}
  /\ call = [r \in Req |-> NoCall]

Init ==
  /\ InitReq
  /\ value = Nil
  /\ vheap = EmptyHeap
  /\ vptr = 0
  /\ vphase = "input"
  /\ arg = NoResult
  /\ out = NoResult
  /\ shut = NoPubSub

Next ==
  \/ \E r \in Req : command(r)
  \/ \E r \in Req : batch(r, BatchInfo(1), {TRUE})
  \/ \E r \in Req : invoke_script(r)
  \/ \E r \in Req : request_cluster_scan(r, {"0", "zz"} \cup issued, ScanArgListsUpTo(1))
  \/ \E r \in Req : update_connection_password(r)
  \/ \E r \in Req : refresh_iam_token(r)
  \/ \E r \in Req : TaskPoll(r)
  \/ \E r \in Req : TaskComplete(r, ReplyValues)
  \/ \E r \in Req : FreeResponse(r)
  \/ remove_cluster_scan_cursor(issued \cup {"null"})
  \/ close_client

Spec == Init /\ [][Next]_vars

\* ------------------------------------------------------------------------
\* Scans only: every cursor a caller can present, removals of every cursor
\* ------------------------------------------------------------------------

NextScan ==
  \/ \E r \in Req : request_cluster_scan(r, CursorArgs, ScanArgListsUpTo(1))
  \/ \E r \in Req : TaskPoll(r)
  \/ \E r \in Req : TaskComplete(r, ReplyValues)
  \/ remove_cluster_scan_cursor(CursorArgs \cup {"null"})

SpecScan == Init /\ [][NextScan]_vars

\* the clients of the process: request_cluster_scan takes the client to scan
\* with as client_ptr and the cursor as a string; the container is one for
\* the process
ClientHandles == {"A", "B"}

\* scans submitted with one client handle or another: arg[r] is the
\* client_ptr that request r is submitted with
InitScanClients ==
  /\ InitReq
  /\ value = Nil
  /\ vheap = EmptyHeap
  /\ vptr = 0
  /\ vphase = "input"
  /\ arg \in [Req -> ClientHandles]
  /\ out = NoResult
  /\ shut = NoPubSub

SpecScanClients == InitScanClients /\ [][NextScan]_vars

\* commands and credential operations on one client
NextCredentials ==
  \/ \E r \in Req : command(r)
  \/ \E r \in Req : update_connection_password(r)
  \/ \E r \in Req : refresh_iam_token(r)
  \/ \E r \in Req : TaskPoll(r)
  \/ \E r \in Req : TaskComplete(r, CommandReplies)

SpecCredentials == Init /\ [][NextCredentials]_vars

\* ------------------------------------------------------------------------
\* close_client step by step, of a client with or without a PubSub task,
\* with commands in flight
\* ------------------------------------------------------------------------

InitClose ==
  /\ InitReq
  /\ value = Nil
  /\ vheap = EmptyHeap
  /\ vptr = 0
  /\ vphase = "input"
  /\ arg = NoResult
  /\ out = NoResult
  /\ shut \in {NoPubSub, WithPubSub}

NextClose ==
  \/ \E r \in Req : command(r)
  \/ \E r \in Req : TaskPoll(r)
  \/ \E r \in Req : TaskComplete(r, {Okay})
  \/ PubSubStep
  \/ CloseSignal
  \/ CloseTakeHandle
  \/ CloseTick
  \/ CloseWaitEnd
  \/ CloseRelease

SpecClose == InitClose /\ [][NextClose]_vars

\* close_client runs on the caller's thread and runs on once it is called;
\* the timer of the runtime advances.  Nothing makes the PubSub task finish.
SpecCloseFair ==
  /\ SpecClose
  /\ WF_vars(CloseTakeHandle)
  /\ WF_vars(CloseTick)
  /\ WF_vars(CloseWaitEnd)
  /\ WF_vars(CloseRelease)

\* ------------------------------------------------------------------------
\* One request submitted alone: a scan with every argument list of up to
\* MaxArgs elements, or a batch of up to MaxCmds commands with either value
\* of raise_on_error
\* ------------------------------------------------------------------------

NextCall ==
  \/ request_cluster_scan(1, {"0"}, ScanArgListsUpTo(MaxArgs))
  \/ batch(1, BatchInfo(MaxCmds), BOOLEAN)
  \/ TaskPoll(1)
  \/ TaskComplete(1, CommandReplies)
  \/ FreeResponse(1)

SpecCall == Init /\ [][NextCall]_vars

\* ------------------------------------------------------------------------
\* Encoding and release of one reply value
\* ------------------------------------------------------------------------

\* the map [("a", 1), ("b", 2)]
ExampleMap ==
  MapV(<< <<StrV("BulkString", [tag |-> 2, hi |-> 0, lo |-> 1]), IntV(1)>>,
          <<StrV("BulkString", [tag |-> 3, hi |-> 0, lo |-> 1]), IntV(2)>> >>)

\* every leaf alone and in each container, the core leaves nested to the full
\* depth, and the values from_value panics on, alone and after a sibling
InputValues ==
  LeafValues \cup UNION {Wraps(x) : x \in LeafValues}
    \cup ValuesOfDepth(MaxDepth)
    \cup UnclassifiedValues \cup {ServerErrorNoDetails}
    \cup {ArrayV(<<Sib1, u>>) : u \in UnclassifiedValues \cup {ServerErrorNoDetails}}
    \cup {ExampleMap, MapV(<< <<Sib1, Sib2>>, <<Sib1, Nil>> >>)}

InitValue ==
  /\ InitReq
  /\ value \in InputValues
  /\ vheap = EmptyHeap
  /\ vptr = 0
  /\ vphase = "input"
  /\ arg = NoResult
  /\ out = NoResult
  /\ shut = NoPubSub

\* let ptr = Box::into_raw(Box::new(ResponseValue::from_value(value)))
Encode ==
  /\ vphase = "input"
  /\ LET enc == from_value(value, vheap)
         box == BoxResponse(enc.rv, enc.h)
     IN  IF enc.panic
           THEN vheap' = enc.h /\ vptr' = 0 /\ vphase' = "panicked"
           ELSE vheap' = box.h /\ vptr' = box.ptr /\ vphase' = "encoded"
  /\ UNCHANGED <<value, arg, out, shut, reqVars>>

\* free_response(ptr) by the receiver
Release ==
  /\ vphase = "encoded"
  /\ vheap' = free_response(vptr, vheap)
  /\ vphase' = "released"
  /\ UNCHANGED <<value, vptr, arg, out, shut, reqVars>>

NextValue == Encode \/ Release

SpecValue == InitValue /\ [][NextValue]_vars

\* ------------------------------------------------------------------------
\* create_route applied to one RouteInfo
\* ------------------------------------------------------------------------

RECURSIVE Xor(_, _, _)
\* the bitwise exclusive or of two numbers of n bits
Xor(a, b, n) ==
  IF n = 0 THEN 0
  ELSE (((a % 2) + (b % 2)) % 2) + 2 * Xor(a \div 2, b \div 2, n - 1)

RECURSIVE Crc16Shift(_, _)
\* k shifts of the CRC16/XMODEM register, polynomial 0x1021
Crc16Shift(crc, k) ==
  IF k = 0 THEN crc
  ELSE Crc16Shift(IF crc >= 32768
                    THEN Xor((crc * 2) % 65536, 4129, 16)
                    ELSE crc * 2,
                  k - 1)

RECURSIVE Crc16(_, _)
\* crc16 of bytes, from register crc
Crc16(bytes, crc) ==
  IF bytes = <<>> THEN crc
  ELSE Crc16(Tail(bytes), Crc16Shift(Xor(crc, Head(bytes) * 256, 16), 8))

\* get_hashtag: the bytes between the first '{' and the first '}' after it,
\* if there are any; otherwise the whole key
HashTag(key) ==
  LET opens == {i \in 1..Len(key) : key[i] = 123}
      open == CHOOSE i \in opens : \A j \in opens : i <= j
      closes == {i \in (open + 1)..Len(key) : key[i] = 125}
      close == CHOOSE i \in closes : \A j \in closes : i <= j
  IN  IF opens = {} THEN key
      ELSE IF closes = {} THEN key
      ELSE IF close = open + 1 THEN key
      ELSE SubSeq(key, open + 1, close - 1)

\* redis::cluster_topology::get_slot: crc16 of the hash tag, modulo 16384
get_slot(key) == Crc16(HashTag(key), 0) % 16384

\* the bytes of a C string: 'a', '{', '}' and a byte that is valid in no
\* UTF-8 sequence
KeyBytes == {97, 123, 125, 255}

\* a *const c_char: null, or the bytes before the terminating NUL
NullPtr == [null |-> TRUE, bytes |-> <<>>]

CString(bytes) == [null |-> FALSE, bytes |-> bytes]

KeyStrings == {CString(b) : b \in UNION {[1..n -> KeyBytes] : n \in 0..MaxKey}}

\* CStr::to_str succeeds
IsUtf8Bytes(bytes) == \A i \in 1..Len(bytes) : bytes[i] < 128

\* ptr_to_str: "" for a null pointer, CStr::from_ptr(ptr).to_str().unwrap()
\* otherwise
ptr_to_str(ptr) ==
  IF ptr.null THEN [panic |-> FALSE, str |-> <<>>]
  ELSE IF IsUtf8Bytes(ptr.bytes) THEN [panic |-> FALSE, str |-> ptr.bytes]
  ELSE [panic |-> TRUE, str |-> <<>>]

\* impl From<&SlotType> for SlotAddr
SlotAddr(slot_type) ==
  IF slot_type = "Primary" THEN "Master" ELSE "ReplicaRequired"

\* `as u16` of an i32
as_u16(n) == n % 65536

None == [some |-> FALSE]

Some(v) == [some |-> TRUE, v |-> v]

\* Routable::command of the Cmd given with the route: the name of the
\* command, None for a Cmd that holds no argument at all
RoutableCommand(cmd) == IF cmd = "" THEN None ELSE Some(cmd)

\* ResponsePolicy::for_command: the merge policy the command's metadata
\* declares (DBSIZE sums the replies), None for a command that declares none
for_command(name) == IF name = "DBSIZE" THEN Some("AggregateSum") ELSE None

\* cmd.and_then(|c| ResponsePolicy::for_command(&c.command().unwrap())):
\* None without a command; the unwrap panics when the Cmd has no name
ResponsePolicyOf(cmd) ==
  IF cmd = "None" THEN [panic |-> FALSE, v |-> None]
  ELSE IF ~RoutableCommand(cmd).some THEN [panic |-> TRUE, v |-> None]
  ELSE [panic |-> FALSE, v |-> for_command(RoutableCommand(cmd).v)]

\* Route::new(slot, slot_addr) as a single-node route
SpecificNode(slot, slot_addr) ==
  [tag |-> "SingleNode", node |-> "SpecificNode", slot |-> slot,
   addr |-> slot_addr, host |-> <<>>, port |-> 0, policy |-> None]

RouteType == {"Random", "AllNodes", "AllPrimaries", "SlotId", "SlotKey", "ByAddress"}

SlotType == {"Primary", "Replica"}

\* pub struct RouteInfo, and the cmd argument of create_route
RouteInfo ==
  [route_type : RouteType,
   slot_id : {0, 12739, 16383, 65536 + 7},
   slot_key : KeyStrings \cup {NullPtr},
   slot_type : SlotType,
   hostname : {NullPtr, CString(<<97>>)},
   port : {6379, 65536 + 6379},
   cmd : {"None", "DBSIZE", "GET", ""}]

\* create_route for a route pointer that is not null
create_route(route) ==
  LET policy == ResponsePolicyOf(route.cmd)
      plain == [tag |-> "SingleNode", node |-> "Random", slot |-> 0,
                addr |-> "none", host |-> <<>>, port |-> 0, policy |-> None]
  IN  CASE route.route_type = "Random" -> plain
        [] route.route_type = "AllNodes" ->
             IF policy.panic
               THEN [plain EXCEPT !.tag = "panic"]
               ELSE [plain EXCEPT !.tag = "MultiNode", !.node = "AllNodes",
                                  !.policy = policy.v]
        [] route.route_type = "AllPrimaries" ->
             IF policy.panic
               THEN [plain EXCEPT !.tag = "panic"]
               ELSE [plain EXCEPT !.tag = "MultiNode", !.node = "AllMasters",
                                  !.policy = policy.v]
        [] route.route_type = "SlotId" ->
             SpecificNode(as_u16(route.slot_id), SlotAddr(route.slot_type))
        [] route.route_type = "SlotKey" ->
             IF ptr_to_str(route.slot_key).panic
               THEN [plain EXCEPT !.tag = "panic"]
               ELSE SpecificNode(get_slot(ptr_to_str(route.slot_key).str),
                                 SlotAddr(route.slot_type))
        [] route.route_type = "ByAddress" ->
             IF ptr_to_str(route.hostname).panic
               THEN [plain EXCEPT !.tag = "panic"]
               ELSE [plain EXCEPT !.node = "ByAddress",
                                  !.host = ptr_to_str(route.hostname).str,
                                  !.port = as_u16(route.port)]

\* a resolution that takes a null route pointer for a random route
create_route_of_random(route_ptr) ==
  IF route_ptr.null
    THEN Some(create_route([route_type |-> "Random", slot_id |-> 0,
                            slot_key |-> NullPtr, slot_type |-> "Primary",
                            hostname |-> NullPtr, port |-> 0, cmd |-> "None"]))
    ELSE Some(create_route(route_ptr.route))

\* create_route(route_ptr, cmd): if route_ptr.is_null() { return None },
\* else Some(..) of the route the RouteInfo describes
create_route_of(route_ptr) ==
  IF route_ptr.null THEN None ELSE Some(create_route(route_ptr.route))

InitRoute ==
  /\ InitReq
  /\ value = Nil
  /\ vheap = EmptyHeap
  /\ vptr = 0
  /\ vphase = "input"
  /\ arg \in RouteInfo
  /\ out = NoResult
  /\ shut = NoPubSub

\* let route = unsafe { create_route(route_info, ..) }
ResolveRoute ==
  /\ out = NoResult
  /\ out' = create_route(arg)
  /\ UNCHANGED <<value, vheap, vptr, vphase, arg, shut, reqVars>>

NextRoute == ResolveRoute

SpecRoute == InitRoute /\ [][NextRoute]_vars

\* requests whose receiver may unwind out of a callback
NextUnwind ==
  \/ \E r \in Req : command(r)
  \/ \E r \in Req : TaskPoll(r)
  \/ \E r \in Req : TaskComplete(r, CommandReplies)
  \/ \E r \in Req : TaskCallbackUnwinds(r, CommandReplies)

SpecUnwind == Init /\ [][NextUnwind]_vars

\* ------------------------------------------------------------------------
\* report_error, statement by statement
\* ------------------------------------------------------------------------

\* how often the receiver looks at the message while its callback runs
MaxReads == 2

\* the calls of report_error: by an entry point or a task with the error it
\* met, or by PanicGuard::drop with its fixed message
ReportArgs ==
  [callback_index : 1..MaxReq, nul : BOOLEAN, error_type : RequestErrorType,
   ctx : {"entry", "task"}]

\* pc: where report_error stands; cstr: the allocation behind err_ptr
\* ("none", "live" or "freed"); frees: how often the library released it;
\* reads: what the receiver found behind the pointer each time it looked;
\* calls: the failure callbacks invoked
ReportState(pc, cstr) ==
  [pc |-> pc, cstr |-> cstr, frees |-> 0, reads |-> <<>>, calls |-> <<>>]

InitReport ==
  /\ InitReq
  /\ value = Nil
  /\ vheap = EmptyHeap
  /\ vptr = 0
  /\ vphase = "input"
  /\ arg \in ReportArgs
  /\ out = NoResult
  /\ shut = NoPubSub

\* let err_ptr = CString::into_raw(CString::new(error_string).expect(..))
ReportIntoRaw ==
  /\ out = NoResult
  /\ out' = IF arg.nul THEN ReportState("panicked", "none")
                       ELSE ReportState("allocated", "live")
  /\ UNCHANGED <<value, vheap, vptr, vphase, arg, shut, reqVars>>

\* unsafe { failure_callback(callback_index, err_ptr, error_type) }: entered
ReportCallback ==
  /\ out # NoResult
  /\ out.pc = "allocated"
  /\ out' = [out EXCEPT !.pc = "in_callback",
                        !.calls = <<Failure(arg.callback_index, "error_message",
                                            arg.error_type, arg.ctx)>>]
  /\ UNCHANGED <<value, vheap, vptr, vphase, arg, shut, reqVars>>

\* the receiver copies the string behind error_message
CallbackRead ==
  /\ out # NoResult
  /\ out.pc = "in_callback"
  /\ Len(out.reads) < MaxReads
  /\ out' = [out EXCEPT !.reads = Append(@, out.cstr)]
  /\ UNCHANGED <<value, vheap, vptr, vphase, arg, shut, reqVars>>

\* the callback returns, or (extern "C-unwind") unwinds through report_error
CallbackEnd ==
  /\ out # NoResult
  /\ out.pc = "in_callback"
  /\ \E pc \in {"returned", "unwound"} : out' = [out EXCEPT !.pc = pc]
  /\ UNCHANGED <<value, vheap, vptr, vphase, arg, shut, reqVars>>

\* a report_error that does not take the message back
ReportFromRawOmitted ==
  /\ out # NoResult
  /\ out.pc = "returned"
  /\ out' = [out EXCEPT !.pc = "done"]
  /\ UNCHANGED <<value, vheap, vptr, vphase, arg, shut, reqVars>>

\* _ = unsafe { CString::from_raw(err_ptr) }
ReportFromRaw ==
  /\ out # NoResult
  /\ out.pc = "returned"
  /\ out' = [out EXCEPT !.pc = "done", !.cstr = "freed", !.frees = @ + 1]
  /\ UNCHANGED <<value, vheap, vptr, vphase, arg, shut, reqVars>>

NextReport ==
  \/ ReportIntoRaw
  \/ ReportCallback
  \/ CallbackRead
  \/ CallbackEnd
  \/ ReportFromRaw

SpecReport == InitReport /\ [][NextReport]_vars

\* ------------------------------------------------------------------------
\* The memory behind the arguments of an entry point
\* ------------------------------------------------------------------------

\* a call: its entry point, the length of its first argument array (the
\* arguments of the command, the commands of the batch, the keys of the
\* script, the arguments of the scan, the password) and, for a script, of
\* its second one (the script's arguments)
ArgCalls ==
  [ep : {"command", "batch", "request_cluster_scan", "update_connection_password"},
   n1 : 0..MaxArgs, n2 : {0}]
    \cup [ep : {"invoke_script"}, n1 : 0..MaxArgs, n2 : 0..MaxArgs]

Held(name, memory) == [name |-> name, memory |-> memory]

\* what the async block of each entry point captures, and whose memory it
\* is: cmd.arg(..) copies each argument into the Cmd, ptr_to_str and
\* to_string/to_owned/into build Strings, the scan arguments are copied into
\* the ClusterScanArgs; keys_vec and args_vec of invoke_script are
\* Vec<&[u8]> of slices made from the caller's pointers (empty when the
\* count is 0)
Captures(c) ==
  CASE c.ep = "command" -> {Held("cmd", "library"), Held("route", "library")}
    [] c.ep = "batch" -> {Held("pipeline", "library"), Held("routing", "library")}
    [] c.ep = "invoke_script" ->
         {Held("hash_str", "library")}
           \cup (IF c.n1 > 0 THEN {Held("keys_vec", "caller")} ELSE {})
           \cup (IF c.n2 > 0 THEN {Held("args_vec", "caller")} ELSE {})
    [] c.ep = "request_cluster_scan" ->
         {Held("scan_state_cursor", "library"), Held("cluster_scan_args", "library")}
    [] c.ep = "update_connection_password" -> {Held("password", "library")}

InitArgs ==
  /\ InitReq
  /\ value = Nil
  /\ vheap = EmptyHeap
  /\ vptr = 0
  /\ vphase = "input"
  /\ arg \in ArgCalls
  /\ out = NoResult
  /\ shut = NoPubSub

\* the entry point up to client.runtime.spawn(async move { .. })
EntrySpawns ==
  /\ out = NoResult
  /\ out' = [pc |-> "entry", task |-> "queued", held |-> Captures(arg),
             caller |-> "live", reads |-> {}]
  /\ UNCHANGED <<value, vheap, vptr, vphase, arg, shut, reqVars>>

\* the entry point returns to its caller
EntryReturns ==
  /\ out # NoResult
  /\ out.pc = "entry"
  /\ out' = [out EXCEPT !.pc = "returned"]
  /\ UNCHANGED <<value, vheap, vptr, vphase, arg, shut, reqVars>>

\* the caller frees or reuses its buffers once the call has returned
CallerFrees ==
  /\ out # NoResult
  /\ out.pc = "returned"
  /\ out.caller = "live"
  /\ out' = [out EXCEPT !.caller = "freed"]
  /\ UNCHANGED <<value, vheap, vptr, vphase, arg, shut, reqVars>>

\* the task is polled on a worker thread and hands what it captured to the
\* underlying client, which reads it; a read of freed memory yields the
\* bytes that were there or anything else
TaskReads ==
  /\ out # NoResult
  /\ out.task = "queued"
  /\ \E garbage \in BOOLEAN :
       out' = [out EXCEPT
                 !.task = "ran",
                 !.reads = {[name |-> h.name, memory |-> h.memory, at |-> out.pc,
                             found |-> IF h.memory = "caller" /\ out.caller = "freed"
                                         THEN IF garbage THEN "garbage" ELSE "stale"
                                         ELSE "bytes"] : h \in out.held}]
  /\ UNCHANGED <<value, vheap, vptr, vphase, arg, shut, reqVars>>

NextArgs ==
  \/ EntrySpawns
  \/ EntryReturns
  \/ CallerFrees
  \/ TaskReads

SpecArgs == InitArgs /\ [][NextArgs]_vars

\* ------------------------------------------------------------------------
\* The options of a batch
\* ------------------------------------------------------------------------

NullOptions == [null |-> TRUE]

\* the routes given with batch options, route_info being null or a RouteInfo
OptionRoutes ==
  { [null |-> TRUE] }
    \cup { [null |-> FALSE, route |-> ri] :
             ri \in { r \in RouteInfo :
                        /\ r.route_type \in {"Random", "AllNodes", "SlotId"}
                        /\ r.slot_id = 12739 /\ r.slot_key = NullPtr
                        /\ r.slot_type = "Primary" /\ r.hostname = NullPtr
                        /\ r.cmd = "None" } }

\* the timeouts in milliseconds given with batch options
TimeoutValues == {0, 250}

\* pub struct BatchOptionsInfo behind options_ptr, or a null pointer
BatchOptionsInfo ==
  { NullOptions }
    \cup [null : {FALSE}, retry_server_error : BOOLEAN,
          retry_connection_error : BOOLEAN, has_timeout : BOOLEAN,
          timeout : TimeoutValues, route_info : OptionRoutes]

\* PipelineRetryStrategy::new(retry_server_error, retry_connection_error)
PipelineRetryStrategy(retry_server_error, retry_connection_error) ==
  [retry_server_error |-> retry_server_error,
   retry_connection_error |-> retry_connection_error]

\* a get_pipeline_options that passes the two flags in the other order
get_pipeline_options_swapped(ptr) ==
  IF ptr.null
    THEN [routing |-> None, timeout |-> None,
          strategy |-> PipelineRetryStrategy(FALSE, FALSE)]
    ELSE [routing |-> create_route_of(ptr.route_info),
          timeout |-> IF ptr.has_timeout THEN Some(ptr.timeout) ELSE None,
          strategy |-> PipelineRetryStrategy(ptr.retry_connection_error,
                                             ptr.retry_server_error)]

\* get_pipeline_options: (None, None, PipelineRetryStrategy::new(false, false))
\* for a null pointer, else (create_route(info.route_info, None), the timeout
\* if has_timeout, PipelineRetryStrategy::new of the two flags)
get_pipeline_options(ptr) ==
  IF ptr.null
    THEN [routing |-> None, timeout |-> None,
          strategy |-> PipelineRetryStrategy(FALSE, FALSE)]
    ELSE [routing |-> create_route_of(ptr.route_info),
          timeout |-> IF ptr.has_timeout THEN Some(ptr.timeout) ELSE None,
          strategy |-> PipelineRetryStrategy(ptr.retry_server_error,
                                             ptr.retry_connection_error)]

\* the call the task of batch makes: send_transaction(&pipeline, routing,
\* timeout, raise_on_error) if pipeline.is_atomic(), else
\* send_pipeline(&pipeline, routing, raise_on_error, timeout,
\* pipeline_retry_strategy)
BatchDispatch(is_atomic, raise_on_error, options_ptr) ==
  LET options == get_pipeline_options(options_ptr)
  IN  IF is_atomic
        THEN [op |-> "send_transaction", routing |-> options.routing,
              timeout |-> options.timeout, raise_on_error |-> raise_on_error,
              strategy |-> None]
        ELSE [op |-> "send_pipeline", routing |-> options.routing,
              timeout |-> options.timeout, raise_on_error |-> raise_on_error,
              strategy |-> Some(options.strategy)]

InitOptions ==
  /\ InitReq
  /\ value = Nil
  /\ vheap = EmptyHeap
  /\ vptr = 0
  /\ vphase = "input"
  /\ arg \in [is_atomic : BOOLEAN, raise_on_error : BOOLEAN,
              options_ptr : BatchOptionsInfo]
  /\ out = NoResult
  /\ shut = NoPubSub

\* batch with a pipeline that was built, up to the client call of its task
DispatchBatch ==
  /\ out = NoResult
  /\ out' = BatchDispatch(arg.is_atomic, arg.raise_on_error, arg.options_ptr)
  /\ UNCHANGED <<value, vheap, vptr, vphase, arg, shut, reqVars>>

NextOptions == DispatchBatch

SpecOptions == InitOptions /\ [][NextOptions]_vars

\* ------------------------------------------------------------------------
\* The arguments of a scan
\* ------------------------------------------------------------------------

\* the longest argument list given to build_cluster_scan_args
MaxScanArgs == 4

InitScanArgs ==
  /\ InitReq
  /\ value = Nil
  /\ vheap = EmptyHeap
  /\ vptr = 0
  /\ vphase = "input"
  /\ arg \in [args : ScanArgListsUpTo(MaxScanArgs)]
  /\ out = NoResult
  /\ shut = NoPubSub

\* let cluster_scan_args = match unsafe { build_cluster_scan_args(..) }
BuildScanArgs ==
  /\ out = NoResult
  /\ out' = build_cluster_scan_args(arg.args)
  /\ UNCHANGED <<value, vheap, vptr, vphase, arg, shut, reqVars>>

NextScanArgs == BuildScanArgs

SpecScanArgs == InitScanArgs /\ [][NextScanArgs]_vars

\* ------------------------------------------------------------------------
\* The route of a command and of a batch
\* ------------------------------------------------------------------------

\* the route_info pointer given to command: null or a RouteInfo, with the
\* Cmd that command built
CommandRoutes ==
  { [null |-> TRUE] }
    \cup { [null |-> FALSE, route |-> ri] :
             ri \in { r \in RouteInfo :
                        /\ r.slot_id = 12739 /\ r.slot_key = NullPtr
                        /\ r.hostname = NullPtr /\ r.cmd # "None" } }

InitResolve ==
  /\ InitReq
  /\ value = Nil
  /\ vheap = EmptyHeap
  /\ vptr = 0
  /\ vphase = "input"
  /\ arg \in [ep : {"command"}, route_info : CommandRoutes]
               \cup [ep : {"batch"}, is_atomic : BOOLEAN,
                     options_ptr : BatchOptionsInfo]
  /\ out = NoResult
  /\ shut = NoPubSub

\* command: let route = create_route(route_info, Some(&cmd)); batch: let
\* (routing, ..) = get_pipeline_options(options_ptr), handed to the dispatch
ResolveRouting ==
  /\ out = NoResult
  /\ out' = IF arg.ep = "command"
              THEN [routing |-> create_route_of(arg.route_info)]
              ELSE [routing |-> BatchDispatch(arg.is_atomic, FALSE,
                                              arg.options_ptr).routing]
  /\ UNCHANGED <<value, vheap, vptr, vphase, arg, shut, reqVars>>

NextResolve == ResolveRouting

SpecResolve == InitResolve /\ [][NextResolve]_vars

\* ------------------------------------------------------------------------
\* create_cmd and create_pipeline with the arguments of the commands
\* ------------------------------------------------------------------------

\* the byte strings given as arguments
ArgValues == {"a", "b"}

\* request types: one keyword, two keywords, none (CustomCommand), and one
\* without a command
RequestTypes == {"Get", "ConfigGet", "CustomCommand", "InvalidRequest"}

\* CmdInfo { request_type, args, arg_count, args_len }
CmdInfoOf ==
  [request_type : RequestTypes,
   args : UNION {[1..k -> ArgValues] : k \in 0..MaxArgs}]

\* info.request_type.get_command(): the Cmd holding the keyword(s) of the
\* request type, or None
get_command(request_type) ==
  CASE request_type = "Get" -> Some(<<"GET">>)
    [] request_type = "ConfigGet" -> Some(<<"CONFIG", "GET">>)
    [] request_type = "CustomCommand" -> Some(<<>>)
    [] OTHER -> None

RECURSIVE ArgLoop(_, _)
\* for command_arg in arg_vec { cmd.arg(command_arg); }
ArgLoop(cmd, arg_vec) ==
  IF arg_vec = <<>> THEN cmd
  ELSE ArgLoop(Append(cmd, Head(arg_vec)), Tail(arg_vec))

RECURSIVE ArgLoopFront(_, _)
\* a loop that puts each argument in front of the command
ArgLoopFront(cmd, arg_vec) ==
  IF arg_vec = <<>> THEN cmd
  ELSE ArgLoopFront(<<Head(arg_vec)>> \o cmd, Tail(arg_vec))

\* a create_cmd whose arguments end up before the keywords, last one first
create_cmd_front(info) ==
  IF ~get_command(info.request_type).some
    THEN [ok |-> FALSE, cmd |-> <<>>]
    ELSE [ok |-> TRUE,
          cmd |-> ArgLoopFront(get_command(info.request_type).v, info.args)]

\* create_cmd with the Cmd it builds: Err("Couldn't fetch command type") or
\* the keywords followed by the arguments
create_cmd_of(info) ==
  IF ~get_command(info.request_type).some
    THEN [ok |-> FALSE, cmd |-> <<>>]
    ELSE [ok |-> TRUE, cmd |-> ArgLoop(get_command(info.request_type).v, info.args)]

InitPipeline ==
  /\ InitReq
  /\ value = Nil
  /\ vheap = EmptyHeap
  /\ vptr = 0
  /\ vphase = "input"
  /\ arg \in [cmds : UNION {[1..k -> CmdInfoOf] : k \in 1..MaxCmds},
              is_atomic : BOOLEAN]
  /\ out = NoResult
  /\ shut = NoPubSub

\* let mut pipeline = Pipeline::with_capacity(info.cmd_count)
PipelineNew ==
  /\ out = NoResult
  /\ out' = [pc |-> "loop", i |-> 0, cmds |-> <<>>, atomic |-> FALSE]
  /\ UNCHANGED <<value, vheap, vptr, vphase, arg, shut, reqVars>>

\* one turn of the loop: Ok(cmd) => pipeline.add_command(cmd),
\* Err(err) => return Err(..)
PipelineAddCommand ==
  /\ out # NoResult
  /\ out.pc = "loop"
  /\ out.i < Len(arg.cmds)
  /\ LET built == create_cmd_of(arg.cmds[out.i + 1])
     IN  out' = IF built.ok
                  THEN [out EXCEPT !.i = @ + 1, !.cmds = Append(@, built.cmd)]
                  ELSE [out EXCEPT !.pc = "err"]
  /\ UNCHANGED <<value, vheap, vptr, vphase, arg, shut, reqVars>>

\* if info.is_atomic { pipeline.atomic(); }  Ok(pipeline)
PipelineAtomic ==
  /\ out # NoResult
  /\ out.pc = "loop"
  /\ out.i = Len(arg.cmds)
  /\ out' = [out EXCEPT !.pc = "ok", !.atomic = arg.is_atomic]
  /\ UNCHANGED <<value, vheap, vptr, vphase, arg, shut, reqVars>>

NextPipeline ==
  \/ PipelineNew
  \/ PipelineAddCommand
  \/ PipelineAtomic

SpecPipeline == InitPipeline /\ [][NextPipeline]_vars

\* ------------------------------------------------------------------------
\* create_client, statement by statement
\* ------------------------------------------------------------------------

\* what a call of create_client meets: whether every string of the
\* configuration is valid UTF-8 (ptr_to_str unwraps), whether the runtime
\* can be built (build().unwrap()), the result of GlideClient::new (Ok, or
\* Err whose text holds an interior NUL byte or not), whether the
\* configuration has PubSub subscriptions and whether a PubSub callback is
\* given
CreateArgs ==
  [config_utf8 : BOOLEAN, runtime_built : BOOLEAN,
   res : {"Ok", "Err", "ErrNul"}, is_subscriber : BOOLEAN,
   pubsub_callback : BOOLEAN]

\* pc: where create_client stands; calls: the callbacks invoked so far;
\* pubsub: whether the PubSub task was spawned; strong: the strong count of
\* the Arc<Client>
CreateState(pc) == [pc |-> pc, calls |-> <<>>, pubsub |-> FALSE, strong |-> 0]

\* the unwinding of create_client from a panic: its guard, armed since the
\* first statement, is dropped
CreateUnwound(st) ==
  [st EXCEPT !.pc = "unwound",
             !.calls = @ \o PanicGuardDrop(TRUE, 0, "entry")]

InitCreate ==
  /\ InitReq
  /\ value = Nil
  /\ vheap = EmptyHeap
  /\ vptr = 0
  /\ vphase = "input"
  /\ arg \in CreateArgs
  /\ out = NoResult
  /\ shut = NoPubSub

\* let mut panic_guard = ..; let request = create_connection_request(config)
CreateRequest ==
  /\ out = NoResult
  /\ out' = IF arg.config_utf8 THEN CreateState("request")
                               ELSE CreateUnwound(CreateState("start"))
  /\ UNCHANGED <<value, vheap, vptr, vphase, arg, shut, reqVars>>

\* let runtime = Builder::new_multi_thread()...build().unwrap()
CreateRuntime ==
  /\ out # NoResult
  /\ out.pc = "request"
  /\ out' = IF arg.runtime_built THEN [out EXCEPT !.pc = "runtime"]
                                 ELSE CreateUnwound(out)
  /\ UNCHANGED <<value, vheap, vptr, vphase, arg, shut, reqVars>>

\* let res = runtime.block_on(GlideClient::new(request, tx))
CreateConnect ==
  /\ out # NoResult
  /\ out.pc = "runtime"
  /\ out' = [out EXCEPT !.pc = IF arg.res = "Ok" THEN "connected" ELSE "failed"]
  /\ UNCHANGED <<value, vheap, vptr, vphase, arg, shut, reqVars>>

\* Ok(client): the PubSub task is spawned if is_subscriber and a callback is
\* given; Arc::new(Client {..}); Arc::into_raw(client_adapter.clone())
CreateAdapter ==
  /\ out # NoResult
  /\ out.pc = "connected"
  /\ out' = [out EXCEPT !.pc = "adapter",
                        !.pubsub = arg.is_subscriber /\ arg.pubsub_callback,
                        !.strong = 2]
  /\ UNCHANGED <<value, vheap, vptr, vphase, arg, shut, reqVars>>

\* unsafe { success_callback(0, client_ptr as *const ResponseValue) }
CreateSuccess ==
  /\ out # NoResult
  /\ out.pc = "adapter"
  /\ out' = [out EXCEPT !.pc = "called",
                        !.calls = @ \o <<Success(0, 1, "entry")>>]
  /\ UNCHANGED <<value, vheap, vptr, vphase, arg, shut, reqVars>>

\* Err(err) => report_error(failure_callback, 0, err.to_string(),
\* RequestErrorType::Disconnect)
CreateFailure ==
  /\ out # NoResult
  /\ out.pc = "failed"
  /\ LET report == report_error(0, [text |-> "err.to_string()",
                                    nul |-> arg.res = "ErrNul"],
                                "Disconnect", "entry")
     IN  out' = IF report.panic
                  THEN CreateUnwound(out)
                  ELSE [out EXCEPT !.pc = "called", !.calls = @ \o report.calls]
  /\ UNCHANGED <<value, vheap, vptr, vphase, arg, shut, reqVars>>

\* a create_client that returns with its guard still armed
CreateReturnArmed ==
  /\ out # NoResult
  /\ out.pc = "called"
  /\ out' = [out EXCEPT !.pc = "returned",
                        !.strong = IF @ = 2 THEN 1 ELSE @,
                        !.calls = @ \o PanicGuardDrop(TRUE, 0, "entry")]
  /\ UNCHANGED <<value, vheap, vptr, vphase, arg, shut, reqVars>>

\* the end of the match arm, where client_adapter is dropped;
\* panic_guard.panicked = false; drop(panic_guard)
CreateReturn ==
  /\ out # NoResult
  /\ out.pc = "called"
  /\ out' = [out EXCEPT !.pc = "returned",
                        !.strong = IF @ = 2 THEN 1 ELSE @,
                        !.calls = @ \o PanicGuardDrop(FALSE, 0, "entry")]
  /\ UNCHANGED <<value, vheap, vptr, vphase, arg, shut, reqVars>>

NextCreate ==
  \/ CreateRequest
  \/ CreateRuntime
  \/ CreateConnect
  \/ CreateAdapter
  \/ CreateSuccess
  \/ CreateFailure
  \/ CreateReturn

SpecCreate == InitCreate /\ [][NextCreate]_vars

\* ------------------------------------------------------------------------
\* The PubSub task of create_client and process_push_notification
\* ------------------------------------------------------------------------

\* the largest number of elements of a push message, and the number of
\* callbacks the task is followed for
MaxElems == 3
MaxPush == 2

\* redis::PushKind
RedisPushKinds ==
  {"Disconnection", "Other", "Invalidate", "Message", "PMessage", "SMessage",
   "Unsubscribe", "PUnsubscribe", "SUnsubscribe", "Subscribe", "PSubscribe",
   "SSubscribe"}

\* redis::Value as it arrives in PushInfo.data: a bulk string, an integer (the
\* count of a subscribe confirmation), or a value of another type
PushValue(t, bytes, num) == [t |-> t, bytes |-> bytes, num |-> num]

PushValues ==
  {PushValue("BulkString", <<104>>, 0), PushValue("Int", <<>>, 12),
   PushValue("Nil", <<>>, 0)}

PushInfos ==
  [kind : RedisPushKinds,
   data : UNION {[1..n -> PushValues] : n \in 0..MaxElems}]

\* i64::to_string, as ASCII bytes
RECURSIVE to_string(_)
to_string(num) ==
  IF num < 0 THEN <<45>> \o to_string(0 - num)
  ELSE IF num < 10 THEN <<48 + num>>
  ELSE to_string(num \div 10) \o <<48 + (num % 10)>>

\* the closure of process_push_notification that turns each element into a
\* Vec<u8>
PushBytes(v) ==
  CASE v.t = "BulkString" -> v.bytes
    [] v.t = "Int" -> to_string(v.num)
    [] v.t = "SimpleString" -> v.bytes
    [] OTHER -> <<>>

\* Vec::as_ptr: never null, also for an empty vector
as_ptr(bytes) == [null |-> FALSE, bytes |-> bytes]

\* the arguments of a call of pubsub_callback
PubSubCall(kind, message, channel, pattern) ==
  [kind |-> kind,
   message |-> as_ptr(message), message_len |-> Len(message),
   channel |-> as_ptr(channel), channel_len |-> Len(channel),
   pattern |-> IF pattern.some THEN as_ptr(pattern.v) ELSE NullPtr,
   pattern_len |-> IF pattern.some THEN Len(pattern.v) ELSE 0]

\* a process_push_notification that takes the channel for the pattern of a
\* pattern notification as well
process_push_notification_flat(push_msg) ==
  LET strings == [i \in 1..Len(push_msg.data) |-> PushBytes(push_msg.data[i])]
      len == Len(strings)
  IN  IF push_msg.kind \in {"Message", "SMessage", "Subscribe", "SSubscribe",
                            "Unsubscribe", "SUnsubscribe"} /\ len = 2
        THEN PubSubCall(push_msg.kind, strings[2], strings[1], None)
      ELSE IF push_msg.kind \in {"PMessage", "PSubscribe", "PUnsubscribe"} /\ len = 3
        THEN PubSubCall(push_msg.kind, strings[3], strings[2], None)
      ELSE NoResult

\* unsafe fn process_push_notification: the call of pubsub_callback it makes,
\* NoResult when it returns without one
process_push_notification(push_msg) ==
  LET strings == [i \in 1..Len(push_msg.data) |-> PushBytes(push_msg.data[i])]
      kind == push_msg.kind
      len == Len(strings)
  IN  CASE kind = "Message" /\ len = 2
             -> PubSubCall("Message", strings[2], strings[1], None)
        [] kind = "PMessage" /\ len = 3
             -> PubSubCall("PMessage", strings[3], strings[2], Some(strings[1]))
        [] kind = "SMessage" /\ len = 2
             -> PubSubCall("SMessage", strings[2], strings[1], None)
        [] kind = "Subscribe" /\ len = 2
             -> PubSubCall("Subscribe", strings[2], strings[1], None)
        [] kind = "PSubscribe" /\ len = 3
             -> PubSubCall("PSubscribe", strings[3], strings[2], Some(strings[1]))
        [] kind = "SSubscribe" /\ len = 2
             -> PubSubCall("SSubscribe", strings[2], strings[1], None)
        [] kind = "Unsubscribe" /\ len = 2
             -> PubSubCall("Unsubscribe", strings[2], strings[1], None)
        [] kind = "PUnsubscribe" /\ len = 3
             -> PubSubCall("PUnsubscribe", strings[3], strings[2], Some(strings[1]))
        [] kind = "SUnsubscribe" /\ len = 2
             -> PubSubCall("SUnsubscribe", strings[2], strings[1], None)
        [] OTHER -> NoResult

\* a client created as a subscriber with a callback, before any push message
InitPubSub ==
  /\ InitReq
  /\ value = Nil
  /\ vheap = EmptyHeap
  /\ vptr = 0
  /\ vphase = "input"
  /\ arg = NoResult
  /\ out = [msg |-> NoResult, last |-> NoResult, delivered |-> 0]
  /\ shut = WithPubSub

\* the first branch of the select! of the PubSub task: Some(push_msg) =
\* push_rx.recv() => process_push_notification(push_msg, callback).  msg is the
\* message received last, last the call it made, delivered counts the calls.
PubSubReceive ==
  /\ client = "open"
  /\ shut.task = "running"
  /\ out.delivered < MaxPush
  /\ \E push_msg \in PushInfos :
       LET called == process_push_notification(push_msg)
       IN  out' = [msg |-> push_msg,
                   last |-> called,
                   delivered |-> IF called = NoResult THEN out.delivered
                                 ELSE out.delivered + 1]
  /\ UNCHANGED <<reqVars, value, vheap, vptr, vphase, arg, shut>>

NextPubSub ==
  \/ PubSubReceive
  \/ PubSubStep
  \/ CloseSignal

SpecPubSub == InitPubSub /\ [][NextPubSub]_vars

\* ------------------------------------------------------------------------
\* Properties
\* ------------------------------------------------------------------------

Submitted(r) == req[r].st # "idle"

Ended(r) == req[r].st \in {"rejected", "done", "panicked", "dropped"}

Calls(r, kind) == {k \in 1..Len(cb[r]) : cb[r][k].kind = kind}

GuardReport(r, ctx) ==
  Failure(IndexOf(r), "Native function panicked", "Unspecified", ctx)

\* the report of a guard with the given callback index
GuardReportOf(index, ctx) ==
  Failure(index, "Native function panicked", "Unspecified", ctx)

\* C1: for every request the success and the failure callback are together
\* invoked at most once for its callback index, on every path of the entry
\* point and of its task.
C1_AtMostOneContinuation ==
  \A r \in Req :
    Cardinality({k \in 1..Len(cb[r]) : cb[r][k].index = IndexOf(r)}) <= 1

\* C2: every request whose entry point rejected it or whose task has run to
\* its end, panicked or been dropped has received a continuation.
C2_EveryRequestResolved ==
  \A r \in Req : Ended(r) => Len(cb[r]) >= 1

\* C3: a task that panics before it has invoked either callback gets exactly
\* one failure callback, with its index, kind Unspecified and the message
\* "Native function panicked", and no success callback.
C3_PanicReportedOnce ==
  \A r \in Req :
    req[r].st = "panicked" /\ req[r].fault \in {"encode", "message"}
      => cb[r] = <<GuardReport(r, "task")>>

C3_Witness ==
  \E r \in Req :
    /\ req[r].st = "panicked"
    /\ req[r].fault = "encode"
    /\ Len(dispatched[r]) = 1

MalformedKinds == {"command", "batch", "hash", "password", "scan_args"}

C5_EntryPointsDoNotBlock ==
  \A r \in Req :
    /\ req[r].st = "queued" => dispatched[r] = <<>> /\ cb[r] = <<>>
    /\ Submitted(r) => req[r].st # "awaiting" \/ Len(dispatched[r]) = 1
    /\ \A k \in 1..Len(dispatched[r]) : dispatched[r][k].ctx = "task"
    /\ \A k \in Calls(r, "success") : cb[r][k].ctx = "task"

C5_Witness ==
  \E r, q \in Req :
    /\ req[r].st = "queued"
    /\ req[q].st = "done"
    /\ Calls(q, "success") # {}

\* C6: the index passed to a callback is the callback_index given to the
\* entry point that submitted the request, whatever the order in which
\* concurrent requests complete.
C6_CallbackCarriesOwnIndex ==
  \A r \in Req : \A k \in 1..Len(cb[r]) : cb[r][k].index = IndexOf(r)

C6_Witness ==
  \E r, q \in Req :
    /\ r < q
    /\ req[r].st = "awaiting"
    /\ req[q].st = "done"
    /\ Calls(q, "failure") # {}

\* C7: after the encoding of a value is released, every buffer the encoding
\* allocated has been freed exactly once, with the capacity it was allocated
\* with.
C7_ReleaseFreesEachBufferOnce ==
  vphase = "released" =>
    \A a \in DOMAIN vheap :
      vheap[a].kind # "box" => vheap[a].frees = 1 /\ ~vheap[a].bad

\* C8: after free_response no allocation of the response is live: the nested
\* buffers and the boxed top-level record are deallocated.
C8_FreeResponseFreesAll ==
  \A r \in Req :
    req[r].released => \A a \in DOMAIN mem[r] : mem[r][a].frees = 1

ChildrenOf(v) ==
  IF v.t = "Map"
    THEN [i \in 1..(2 * Len(v.items)) |->
            v.items[(i + 1) \div 2][IF i % 2 = 1 THEN 1 ELSE 2]]
    ELSE v.items

RECURSIVE EncodesAs(_, _, _)
\* record rv in heap h is the encoding of value v, child by child
EncodesAs(rv, v, h) ==
  IF v.t \in ContainerTypes
    THEN /\ rv.typ = v.t
         /\ rv.size = Len(ChildrenOf(v))
         /\ \/ rv.size = 0
            \/ /\ rv.size > 0
               /\ rv.val \in DOMAIN h
               /\ h[rv.val].kind = "rv"
               /\ Len(h[rv.val].data) = rv.size
               /\ \A i \in 1..rv.size :
                    EncodesAs(h[rv.val].data[i], ChildrenOf(v)[i], h)
  ELSE IF v.t \in StringTypes
    THEN /\ rv.typ = ValueTypeOfString(v.t)
         /\ \/ v.b.hi = 0 /\ v.b.lo = 0
            \/ rv.val \in DOMAIN h /\ h[rv.val].kind = "u8" /\ h[rv.val].data = <<v.b>>
  ELSE rv.val = v.n /\ rv.size = 0

\* C10: the record of a container holds the encodings of its elements in
\* their order and their number as its length; a Map of n entries has
\* length 2n and children key 1, value 1, ..., key n, value n.
C10_ContainerChildrenInOrder ==
  vphase = "encoded" /\ value.t \in ContainerTypes
    => EncodesAs(vheap[vptr].data[1], value, vheap)

C10_Witness ==
  /\ vphase = "encoded"
  /\ value = ExampleMap
  /\ vheap[vptr].data[1].typ = "Map"
  /\ vheap[vptr].data[1].size = 4

\* the root record of the encoded value
RootRecord == vheap[vptr].data[1]

ScalarTypes == {"Nil", "Int", "Double", "Boolean", "Okay"}

\* the kind and the inline payload the claim gives for a scalar value
ScalarKind(v) ==
  CASE v.t = "Nil" -> "Null"
    [] v.t = "Okay" -> "OK"
    [] v.t = "Int" -> "Int"
    [] v.t = "Double" -> "Float"
    [] v.t = "Boolean" -> "Bool"

ScalarPayload(v) ==
  CASE v.t \in {"Nil", "Okay"} -> 0
    [] v.t = "Boolean" -> IF v = BooleanV(TRUE) THEN 1 ELSE 0
    [] OTHER -> v.n

\* C11: the record of a scalar value has its kind, size 0 and its payload in
\* val (0 for Nil and Ok, the integer, 1 or 0 for a boolean, the bit pattern
\* of a float); encoding it allocates no buffer and releasing it frees
\* nothing.
C11_ScalarsAreInline ==
  vphase \in {"encoded", "released"} /\ value.t \in ScalarTypes
    => /\ RootRecord.typ = ScalarKind(value)
       /\ RootRecord.size = 0
       /\ RootRecord.val = ScalarPayload(value)
       /\ \A a \in DOMAIN vheap : vheap[a].kind = "box" /\ vheap[a].frees = 0

C11_Witness ==
  /\ vphase = "released"
  /\ value = BooleanV(TRUE)
  /\ RootRecord = ResponseValue("Bool", 1, 0)

StringKind(v) ==
  CASE v.t \in {"SimpleString", "VerbatimString"} -> "String"
    [] v.t = "BulkString" -> "BulkString"
    [] v.t = "ServerError" -> "Error"

\* C12: the record of a string-like value has the kind of the value
\* (String, BulkString or Error), its length field is the byte count of the
\* value and it references a buffer holding the value's bytes, whatever the
\* length of the buffer.
C12_StringLengthIsByteCount ==
  vphase = "encoded" /\ value.t \in StringTypes
    => /\ RootRecord.typ = StringKind(value)
       /\ usize(RootRecord.size) = ByteLen(value.b)
       /\ \/ ByteLen(value.b) = usize(0)
          \/ /\ RootRecord.val \in DOMAIN vheap
             /\ vheap[RootRecord.val].kind = "u8"
             /\ vheap[RootRecord.val].data = <<value.b>>

RECURSIVE HasUnclassified(_)
\* the value, or an element nested in it, is of a variant from_value has no
\* arm for
HasUnclassified(v) ==
  \/ v.t \in UnclassifiedTypes
  \/ \E i \in 1..Len(v.items) : HasUnclassified(v.items[i])

\* C13: a reply that holds an unclassified variant, at the top level or
\* nested, is never handed to the success callback: the request ends with a
\* failure callback, and no buffer allocated for the elements encoded before
\* the offending one stays allocated.
C13_UnclassifiedReplyFails ==
  \A r \in Req :
    call[r].answer = "ok" /\ HasUnclassified(call[r].reply)
      => /\ Calls(r, "success") = {}
         /\ Calls(r, "failure") # {}
         /\ \A a \in DOMAIN mem[r] : mem[r][a].frees >= 1

\* the request was answered by the entry point with the invalid-cursor failure
InvalidCursorFailure(r) ==
  /\ req[r].st = "rejected"
  /\ cb[r] = <<Failure(IndexOf(r), "Invalid cursor ID: " \o call[r].cursor,
                       "Unspecified", "entry")>>
  /\ dispatched[r] = <<>>

\* the scan was presented with an identifier the container handed out and
\* did not hold any more when the entry point ran
RemovedCursor(r) ==
  /\ req[r].ep = "request_cluster_scan"
  /\ call[r].cursor \in issued
  /\ ~call[r].held

\* C14: in every sequence of scans and removals, a scan presented with "0"
\* starts from a fresh scan state whatever the container holds, a scan
\* presented with an identifier the container holds proceeds with the state
\* held under it, and a scan presented with an identifier that was removed
\* fails with the invalid-cursor failure.
C14_ScanLifecycle ==
  \A r \in Req :
    req[r].ep = "request_cluster_scan" =>
      /\ call[r].cursor = "0"
           => call[r].state = "new" /\ ~InvalidCursorFailure(r)
      /\ call[r].held
           => call[r].state = call[r].cursor /\ ~InvalidCursorFailure(r)
      /\ RemovedCursor(r) => InvalidCursorFailure(r)

C14_Witness ==
  \E r, q \in Req :
    /\ RemovedCursor(r)
    /\ call[r].cursor = CursorIdFor(q)
    /\ call[q].cursor = "0"
    /\ req[r].st = "rejected"

\* C15: a scan presented with a cursor that is not "0" and that the
\* container does not hold, a cursor that is not valid UTF-8 included, fails
\* at once: the entry point invokes the failure callback exactly once and
\* returns, no fresh scan state is made, no task is scheduled and the
\* underlying client is not called.
C15_UnknownCursorFails ==
  \A r \in Req :
    /\ req[r].ep = "request_cluster_scan"
    /\ call[r].cursor # "0"
    /\ ~call[r].held
    => /\ req[r].st = "rejected"
       /\ Cardinality(Calls(r, "failure")) = 1
       /\ Calls(r, "success") = {}
       /\ call[r].state # "new"
       /\ dispatched[r] = <<>>

\* C16: a scan whose argument list has a MATCH, COUNT or TYPE token without
\* a value, an unrecognized token, a TYPE value that is not valid UTF-8, or a
\* COUNT value that is not valid UTF-8 or not a number (an empty value
\* included) is rejected by the entry point with exactly one failure
\* callback: no task is scheduled and no scan reaches the underlying client.
C16_MalformedScanArgsRejected ==
  \A r \in Req :
    req[r].ep = "request_cluster_scan" /\ call[r].malformed
      => /\ req[r].st = "rejected"
         /\ Cardinality(Calls(r, "failure")) = 1
         /\ Calls(r, "success") = {}
         /\ dispatched[r] = <<>>

\* what the container holds after remove_cluster_scan_cursor(cursor) is
\* called where it holds registry
AfterRemove(cursor) == RemoveCursor(cursor, registry)

\* a removal is a no-op for a cursor that is null, not valid UTF-8, unknown
\* or already removed, it leaves every other entry in place, and a second
\* removal of the same cursor changes nothing
RemoveIsIdempotent ==
  \A cursor \in CursorArgs \cup {"null"} :
    /\ cursor \notin registry => AfterRemove(cursor) = registry
    /\ AfterRemove(cursor) = registry \ {cursor}
    /\ RemoveCursor(cursor, AfterRemove(cursor)) = AfterRemove(cursor)

\* a step that takes an entry out of the container invokes no callback,
\* schedules nothing and changes no request
RemoveIsSilent ==
  registry' # registry /\ registry' \subseteq registry
    => UNCHANGED <<client, req, cb, dispatched, mem, issued, call>>

\* C17: remove_cluster_scan_cursor is idempotent and has no continuation: for
\* an identifier that is unknown, already removed, null or not valid UTF-8 it
\* is a no-op that leaves every other entry unchanged, calling it twice is
\* the same as calling it once, and it never invokes a callback.
C17_RemoveIdempotentAndSilent ==
  []RemoveIsIdempotent /\ [][RemoveIsSilent]_vars

C17_Witness ==
  \E r \in Req :
    /\ CursorIdFor(r) \in issued \ registry
    /\ registry # {}
    /\ Calls(r, "success") # {}

\* the request is a batch with a command that has no template
UnbuildableBatch(r) == req[r].ep = "batch" /\ call[r].first_bad >= 0

\* C18: a batch with a command that cannot be built fails as a whole: the
\* failure reported names the index of the first such command, no task is
\* scheduled and no command of the batch, those before the failing one
\* included, reaches the underlying client.
C18_BatchBuildFailsAsAWhole ==
  \A r \in Req :
    UnbuildableBatch(r)
      => /\ req[r].st = "rejected"
         /\ cb[r][1] = Failure(IndexOf(r),
                               "Coudln't create " \o ToString(call[r].first_bad)
                                 \o "'th command: \"Couldn't fetch command type\"",
                               "Unspecified", "entry")
         /\ Calls(r, "success") = {}
         /\ dispatched[r] = <<>>
         /\ mem[r] = EmptyHeap

C18_Witness ==
  \E r \in Req :
    /\ UnbuildableBatch(r)
    /\ call[r].cmd_count = 2
    /\ call[r].first_bad = 1
    /\ req[r].st = "rejected"

\* the record behind the pointer handed to the success callback of request r
DeliveredRecord(r) ==
  mem[r][cb[r][CHOOSE k \in Calls(r, "success") : TRUE].ptr].data[1]

\* C20: when the client answers a non-atomic batch with the results of its
\* commands, the array handed to the success callback has one element per
\* command, in the order of the commands, each the encoding of that
\* command's result; with raise_on_error unset the error of a failed command
\* is the element at that command's position.
C20_PipelineResultsInOrder ==
  \A r \in Req :
    /\ req[r].op = "send_pipeline"
    /\ call[r].answer = "ok"
    /\ ~HasUnclassified(call[r].reply)
    /\ ~req[r].released
    => /\ Calls(r, "success") # {}
       /\ DeliveredRecord(r).typ = "Array"
       /\ DeliveredRecord(r).size = call[r].cmd_count
       /\ EncodesAs(DeliveredRecord(r), call[r].reply, mem[r])
       /\ \A i \in 1..call[r].cmd_count :
            call[r].reply.items[i].t = "ServerError"
              => mem[r][DeliveredRecord(r).val].data[i].typ = "Error"

\* C21: a slot-key route resolves, for the same key bytes and role, to one
\* single-node route: the slot-id route whose slot is the cluster hash of the
\* key and whose role is Master for Primary and ReplicaRequired for Replica.
C21_SlotKeyRouteIsSlotIdRoute ==
  out # NoResult /\ arg.route_type = "SlotKey" /\ ~arg.slot_key.null
    => /\ out.tag = "SingleNode"
       /\ out = create_route([arg EXCEPT !.route_type = "SlotId",
                                         !.slot_id = get_slot(arg.slot_key.bytes)])
       /\ out.addr = IF arg.slot_type = "Primary" THEN "Master"
                                                  ELSE "ReplicaRequired"

\* C22: close_client signals the PubSub task to stop at most once, then
\* waits for it for at most the grace period, and releases the client only
\* after the signal is sent and the wait has ended.
C22_CloseSignalsWaitsReleases ==
  /\ shut.signals <= 1
  /\ shut.elapsed <= GracePeriod
  /\ shut.pc \in {"waiting", "waited", "released"} /\ shut.task # "none"
       => shut.signals = 1
  /\ client = "closed"
       => /\ shut.pc = "released"
          /\ shut.tx = "None" /\ shut.handle = "None"
          /\ shut.task # "none" => shut.signals = 1 /\ shut.wait # "none"

C22_Witness ==
  /\ client = "closed"
  /\ shut.signals = 1
  /\ shut.wait = "completed"
  /\ shut.elapsed > 0

\* until close_client releases the client it leaves the PubSub task alone,
\* and a wait that ended by timeout or by the task's panic logged a warning
TaskAbandonedNotKilled ==
  /\ shut.pc # "released" => shut.task # "dropped"
  /\ shut.wait \in {"timeout", "error"} => shut.warned
  /\ shut.wait = "timeout" => shut.elapsed = GracePeriod

FaultReports(r) ==
  {k \in Calls(r, "failure") : cb[r][k].text = GuardReport(r, cb[r][k].ctx).text}

\* C24: a failure reported by the panic guard is told apart by its kind: no
\* failure callback that reports a build, parse, invalid-cursor, connection
\* or server error carries the kind of the guard's report.
C24_FaultKindIsDistinct ==
  \A r \in Req :
    \A k \in Calls(r, "failure") \ FaultReports(r) :
      cb[r][k].etype # GuardReport(r, cb[r][k].ctx).etype

\* the message is alive while the callback runs and whenever the receiver
\* looks at it, and the library has released it once when report_error is done
MessageLifetime ==
  out # NoResult =>
    /\ out.pc = "in_callback" => out.cstr = "live"
    /\ \A k \in 1..Len(out.reads) : out.reads[k] = "live"
    /\ out.frees <= 1
    /\ out.pc = "returned" => out.cstr = "live" /\ out.frees = 0
    /\ out.pc = "done"
         => /\ out.cstr = "freed" /\ out.frees = 1
            /\ out.calls = report_error(arg.callback_index,
                                        [text |-> "error_message", nul |-> arg.nul],
                                        arg.error_type, arg.ctx).calls

\* the step that follows the callback's return is the release
ReleasedRightAfterReturn ==
  out # NoResult /\ out.pc = "returned" => out'.pc = "done" /\ out'.frees = 1

\* C25: the message given to the failure callback belongs to the library:
\* it is valid for the whole callback, the library releases it exactly once
\* right after the callback has returned, whoever called report_error, and
\* the receiver has nothing to free.
C25_MessageOwnedByLibrary ==
  /\ []MessageLifetime
  /\ [][ReleasedRightAfterReturn]_vars

C25_Witness ==
  /\ out # NoResult
  /\ out.pc = "done"
  /\ Len(out.reads) = MaxReads
  /\ out.frees = 1

\* C26: in every scheduled task the panic guard is disarmed before the
\* success or failure callback is invoked, so that a fault during or after
\* the callback adds no synthesized failure to the callback already made.
C26_GuardDisarmedBeforeCallback ==
  \A r \in Req :
    req[r].st = "panicked" /\ req[r].fault = "callback"
      => Len(cb[r]) = 1 /\ FaultReports(r) = {}

\* C27: close_client does not release the client while a request submitted
\* before it is in flight: the client's resources go only once all requests
\* are done, so that closing cancels no task.
C27_CloseKeepsRequestsInFlight ==
  client = "closed" => \A r \in Req : req[r].st # "dropped"

\* C28: no entry point and no task it scheduled reads memory of the caller
\* after the entry point has returned: what the task holds is library-owned,
\* so the caller may free its buffers as soon as the call returns.
C28_NoCallerMemoryAfterReturn ==
  out # NoResult =>
    /\ \A h \in out.held : h.memory = "library"
    /\ \A rd \in out.reads : rd.memory = "caller" => rd.at = "entry"
    /\ \A rd \in out.reads : rd.found = "bytes"

\* the dispatch that matches a request that was built and scheduled
MatchingDispatch(r) ==
  CASE req[r].ep = "command" -> "send_command"
    [] req[r].ep = "batch" ->
         IF call[r].is_atomic THEN "send_transaction" ELSE "send_pipeline"
    [] OTHER -> req[r].op

\* never more than one call to the underlying client for a request, and
\* only of the matching kind
AtMostOneMatchingDispatch ==
  \A r \in Req :
    /\ Len(dispatched[r]) <= 1
    /\ \A k \in 1..Len(dispatched[r]) : dispatched[r][k].op = MatchingDispatch(r)

\* C29: each successfully built submission results in exactly one call to
\* the underlying client, of the kind matching the request: send_command for
\* a command, send_transaction for an atomic batch and send_pipeline for a
\* non-atomic one; nothing is dispatched a second time.
C29_ExactlyOneMatchingDispatch ==
  /\ AtMostOneMatchingDispatch
  /\ \A r \in Req :
       Ended(r) /\ req[r].st # "rejected" /\ req[r].ep \in {"command", "batch"}
         => Len(dispatched[r]) = 1

\* the options that differ from ptr in the two retry flags only
WithRetryFlags(ptr, server, connection) ==
  IF ptr.null THEN ptr
  ELSE [ptr EXCEPT !.retry_server_error = server,
                   !.retry_connection_error = connection]

\* C30: the retry options never affect an atomic batch: it is dispatched as
\* a transaction, without a retry strategy, in the same way whatever the two
\* flags are.  A non-atomic batch is dispatched as a pipeline with exactly
\* the two flags supplied, and with (false, false), no route and no timeout
\* when no options are given.
C30_RetryOptionsOnlyForPipelines ==
  out # NoResult =>
    /\ arg.is_atomic
         => /\ out.op = "send_transaction"
            /\ out.strategy = None
            /\ \A server, connection \in BOOLEAN :
                 out = BatchDispatch(TRUE, arg.raise_on_error,
                                     WithRetryFlags(arg.options_ptr, server, connection))
    /\ ~arg.is_atomic
         => /\ out.op = "send_pipeline"
            /\ ~arg.options_ptr.null
                 => out.strategy =
                      Some(PipelineRetryStrategy(arg.options_ptr.retry_server_error,
                                                 arg.options_ptr.retry_connection_error))
            /\ arg.options_ptr.null
                 => /\ out.strategy = Some(PipelineRetryStrategy(FALSE, FALSE))
                    /\ out.routing = None
                    /\ out.timeout = None

C30_Witness ==
  /\ out # NoResult
  /\ arg.is_atomic
  /\ ~arg.options_ptr.null
  /\ arg.options_ptr.retry_server_error
  /\ ~arg.options_ptr.retry_connection_error
  /\ out.strategy = None

\* the positions of the flat argument list that hold the keyword token t
TokenPositions(args, t) == {i \in 1..Len(args) : args[i] = t}

\* C31: scan argument parsing accepts at most one each of MATCH, COUNT and
\* TYPE: an argument list in which one of these tokens appears more than
\* once is not accepted.
C31_AtMostOneOfEachScanToken ==
  out # NoResult
    /\ (\E t \in {"MATCH", "COUNT", "TYPE"} :
          Cardinality(TokenPositions(arg.args, t)) > 1)
    => ~out.ok

\* request r presents the identifier that the scan of request q was given,
\* and is submitted with another client than q was
PresentsForeignCursor(r, q) ==
  /\ Submitted(r)
  /\ CursorIdFor(q) \in issued
  /\ call[r].cursor = CursorIdFor(q)
  /\ arg[r] # arg[q]

\* C32: a registered cursor identifier that belongs to an unrelated scan
\* sequence, such as one produced by a scan of another client, is rejected
\* with an invalid-cursor failure when it is presented; the scan never
\* proceeds with the other sequence's state.
C32_ForeignCursorRejected ==
  \A r, q \in Req :
    PresentsForeignCursor(r, q)
      => /\ req[r].st = "rejected"
         /\ dispatched[r] = <<>>
         /\ call[r].state # CursorIdFor(q)

\* a step that takes entries out of the container is a removal of one
\* identifier: it changes no request, invokes no callback and takes out
\* nothing else
OnlyRemoveRemoves ==
  registry \ registry' # {}
    => /\ \E cursor \in registry : registry' = RemoveCursor(cursor, registry)
       /\ UNCHANGED <<req, cb, dispatched, call, issued>>

\* C33: entries of the scan-cursor registry are removed only explicitly: no
\* request_cluster_scan, whether it succeeds, fails, is rejected or reports
\* the scan exhausted, removes an entry; an entry disappears only through
\* remove_cluster_scan_cursor with its identifier.
C33_OnlyExplicitRemoval ==
  [][OnlyRemoveRemoves]_vars

C33_Witness ==
  \E r, q \in Req :
    /\ req[r].st = "done"
    /\ call[r].cursor \in registry
    /\ call[r].cursor = CursorIdFor(q)
    /\ req[q].st = "done"

\* C34: an explicit all-nodes or all-primaries route resolves to a
\* multi-node route whose merge policy is the one the accompanying command
\* declares, and to a multi-node route without a merge policy when the
\* command declares none or when no command accompanies the route.
C34_MultiNodeMergePolicy ==
  out # NoResult /\ arg.route_type \in {"AllNodes", "AllPrimaries"}
    => /\ out.tag = "MultiNode"
       /\ out.node = IF arg.route_type = "AllNodes" THEN "AllNodes" ELSE "AllMasters"
       /\ out.policy = IF arg.cmd \in {"None", ""} THEN None ELSE for_command(arg.cmd)

\* no explicit route is given with the call
NullRoute(c) ==
  IF c.ep = "command" THEN c.route_info.null
  ELSE c.options_ptr.null \/ c.options_ptr.route_info.null

\* C35: when no explicit route is given, resolution yields no routing
\* decision, for a single command as for a batch: a null route resolves to
\* no route at all, never to a random, single-node or multi-node one, and a
\* batch with null options is dispatched with no route.
C35_NullRouteIsNoRoute ==
  out # NoResult => (NullRoute(arg) <=> out.routing = None)

C35_Witness ==
  /\ out # NoResult
  /\ arg.ep = "command"
  /\ arg.route_info.null
  /\ out.routing = None

\* C36: the numeric fields of an explicit route are carried into the
\* resolved route unchanged: a slot-id route with slot_id s resolves to the
\* single node at slot s, a by-address route with port p to the node at
\* exactly host:p, for every 32-bit value the caller can pass.
C36_RouteNumbersUnchanged ==
  out # NoResult =>
    /\ arg.route_type = "SlotId"
         => out.tag = "SingleNode" /\ out.node = "SpecificNode"
              /\ out.slot = arg.slot_id
    /\ arg.route_type = "ByAddress" /\ out.tag # "panic"
         => out.tag = "SingleNode" /\ out.node = "ByAddress"
              /\ out.port = arg.port

\* the keywords of the request types
Keywords(request_type) ==
  CASE request_type = "Get" -> <<"GET">>
    [] request_type = "ConfigGet" -> <<"CONFIG", "GET">>
    [] OTHER -> <<>>

\* C37: building preserves order: the arguments of a command follow the
\* keyword(s) of its request type in exactly the order supplied, none
\* dropped, reordered or deduplicated; the commands of a batch are added in
\* exactly the order supplied; and the batch is marked atomic only after all
\* commands have been appended and only when is_atomic is set.
C37_BuildingPreservesOrder ==
  out # NoResult =>
    /\ Len(out.cmds) = out.i
    /\ out.i <= Len(arg.cmds)
    /\ \A k \in 1..Len(out.cmds) :
         out.cmds[k] = Keywords(arg.cmds[k].request_type) \o arg.cmds[k].args
    /\ out.atomic => arg.is_atomic /\ out.pc = "ok"
    /\ out.pc = "ok" => Len(out.cmds) = Len(arg.cmds) /\ out.atomic = arg.is_atomic

C37_Witness ==
  /\ out # NoResult
  /\ out.pc = "ok"
  /\ out.atomic
  /\ out.cmds = << <<"CONFIG", "GET", "b", "a">>, <<"GET", "a", "a">> >>

CredentialOps == {"update_connection_password", "refresh_iam_token"}

\* a request that is in flight has no continuation yet; one whose task has
\* ended, and a credential operation that has ended in any way, has exactly
\* one, with its own index; a token refresh that succeeded delivered Okay
OwnSingleContinuation ==
  \A r \in Req :
    /\ req[r].st \in {"queued", "awaiting"} => cb[r] = <<>>
    /\ req[r].st \in {"done", "panicked"}
         \/ (req[r].ep \in CredentialOps /\ req[r].st = "rejected")
         => Len(cb[r]) = 1 /\ cb[r][1].index = IndexOf(r)
    /\ req[r].ep = "refresh_iam_token" /\ call[r].answer = "ok"
         /\ Calls(r, "success") # {}
         => EncodesAs(DeliveredRecord(r), Okay, mem[r])

\* a step of one request leaves every other request and its callbacks alone
StepsDoNotDisrupt ==
  \A r, q \in Req :
    r # q /\ req'[q] # req[q] => req'[r] = req[r] /\ cb'[r] = cb[r]

\* C38: update_connection_password and refresh_iam_token can be submitted
\* while commands are in flight on the same client without disrupting them:
\* in every interleaving each in-flight command still receives its own
\* single continuation with its own index, and the credential operation
\* receives its own single continuation, Okay for a refresh that succeeded.
C38_CredentialOpsDoNotDisrupt ==
  []OwnSingleContinuation /\ [][StepsDoNotDisrupt]_vars

C38_Witness ==
  \E r, q \in Req :
    /\ req[r].ep = "command" /\ req[r].st = "awaiting"
    /\ req[q].ep = "refresh_iam_token" /\ req[q].st = "done"
    /\ Calls(q, "success") # {}
    /\ r < q

\* create_client has returned or unwound to its caller
CreateEnded == out # NoResult /\ out.pc \in {"returned", "unwound"}

\* create_client panicked on the way
CreatePanicked ==
  ~arg.config_utf8 \/ ~arg.runtime_built \/ arg.res = "ErrNul"

TwoElementKinds ==
  {"Message", "SMessage", "Subscribe", "SSubscribe", "Unsubscribe", "SUnsubscribe"}

ThreeElementKinds == {"PMessage", "PSubscribe", "PUnsubscribe"}

WellFormed(m) ==
  \/ m.kind \in TwoElementKinds /\ Len(m.data) = 2
  \/ m.kind \in ThreeElementKinds /\ Len(m.data) = 3

CallbackInvoked == out'.delivered # out.delivered

PubSubDelivery ==
  /\ CallbackInvoked
       => /\ shut.task = "running"
          /\ out'.delivered = out.delivered + 1
          /\ WellFormed(out'.msg)
          /\ out'.last.kind = out'.msg.kind
          /\ out'.msg.kind \in TwoElementKinds
               => out'.last.pattern = NullPtr /\ out'.last.pattern_len = 0
          /\ out'.msg.kind \in ThreeElementKinds
               => /\ ~out'.last.pattern.null
                  /\ out'.last.pattern.bytes = PushBytes(out'.msg.data[1])
                  /\ out'.last.channel.bytes = PushBytes(out'.msg.data[2])
  /\ out'.msg # out.msg /\ ~CallbackInvoked => ~WellFormed(out'.msg)
  /\ shut.task # "running" => ~CallbackInvoked

C40_PubSubOnlyWellFormedWhileRunning == [][PubSubDelivery]_vars

C40_Witness ==
  /\ shut.task = "finished"
  /\ out.delivered = MaxPush
  /\ out.msg.kind = "PSubscribe"
  /\ out.last # NoResult
  /\ out.last.pattern_len = 0

====
